---- MODULE Spec2Model ----
(***************************************************************************)
(* A model of the encrypted persistence engine of the notes application:   *)
(* StorageService (the in-memory SQLite instance and its coalesced durable *)
(* writes), CryptoService, the authController unlock state machine, the    *)
(* Note and Event repositories and settingsController's export / import.   *)
(*                                                                         *)
(* JavaScript runs one task at a time.  An async function runs without     *)
(* interruption up to its next await; a continuation that follows an       *)
(* already settled promise is a microtask, and the microtask queue is      *)
(* drained before the next event (an IndexedDB completion) is delivered.   *)
(***************************************************************************)
EXTENDS Integers, Sequences, FiniteSets, TLC

(***************************************************************************)
(* Bounds of the model.                                                    *)
(***************************************************************************)
\* Number of Settings.set -> StorageService.execute calls that are issued.
MaxCalls == 3

\* Number of rows (notes and events) created in one run.
MaxIds == 1

\* Number of backup files kept.
MaxFiles == 1

\* Number of setupNewPIN calls suspended at one time.
MaxSetupCalls == 2

\* Number of rows of a table in the stored databases that are read.
MaxRows == 2

\* The largest value of the system clock.
MaxClock == 2

\* Number of months the calendar can display.
MaxMonths == 3

\* Number of loadEventsForMonth calls started.
MaxLoads == 3

\* Number of events in the stored tables that range queries go through.
MaxEvents == 3

\* Number of segments of the strings that are encrypted and decrypted.
MaxSegments == 2

\* Number of 'app-unlocked' events dispatched on one page.
MaxPublishes == 2

VARIABLES
    StorageService,  \* the StorageService object: db, isInitialized, isSaving, saveQueue
    durable,         \* the database file stored in IndexedDB under 'db_file'
    inflight,        \* the saveDbToIndexedDB promises that are not settled yet
    pc,              \* where each caller of StorageService.execute stands
    writes,          \* number of saveDbToIndexedDB calls made for Settings.set callers (history)
    ioFailed,        \* callers whose durable-write was rejected (history)
    localStorage,    \* the items 'user_salt' and 'verification_data'
    auth,            \* the authController object: isLocked, isNewUser, masterKey
    ctrlKey,         \* masterKey of the controllers that listen to 'app-unlocked'
    publishes,       \* number of 'app-unlocked' events dispatched since the page loaded (history)
    initialLoads,    \* number of initial loads each controller has started since the page loaded (history)
    lastDispatch,    \* how the last handleUnlockAttempt ended: the event it dispatched, or "threw"
    setupCalls,      \* the setupNewPIN calls that are suspended in deriveKey / encrypt
    unloading,       \* window.location.reload() was called, the page is not yet unloaded
    setupPin,        \* the PIN of the setupNewPIN call that stored the credentials (history)
    nextId,          \* the next id crypto.randomUUID returns
    clock,           \* the time Date.now returns
    readCall,        \* the last read of a repository and what it returned (history)
    decryptCall,     \* the last call of CryptoService.decrypt and how it ended (history)
    files,           \* the backup files exportData has downloaded
    importCall,      \* the importData call that is under way
    lastImport,      \* how the last importData call of this page ended (history)
    calendar         \* calendarController: the displayed month, the events list, the suspended loads

storeVars == <<StorageService, durable, inflight, pc, writes, ioFailed>>

authVars == <<localStorage, auth, ctrlKey, publishes, initialLoads, lastDispatch,
              setupCalls, unloading, setupPin>>

dataVars == <<nextId, clock, readCall, decryptCall, files, importCall, lastImport,
              calendar>>

appVars == <<authVars, dataVars>>

vars == <<storeVars, authVars, dataVars>>

(***************************************************************************)
(* Values.  Every JavaScript value the model stores is a record whose      *)
(* field names tell its kind.                                              *)
(***************************************************************************)
\* null / undefined / a missing localStorage item.
Null == [kind |-> "null"]

\* A JavaScript string is a sequence of segments: a segment is a run of
\* ordinary characters or one of the code units below.
Chars(segments) == [kind |-> "text", text |-> segments]

\* The string of ordinary characters s.
Text(s) == Chars(IF s = "" THEN <<>> ELSE <<s>>)

\* U+FEFF (the byte order mark), an unpaired surrogate such as U+D800, and
\* U+FFFD (the replacement character).
BOM == "U+FEFF"

LoneSurrogate == "U+D800"

Replacement == "U+FFFD"

\* An exception thrown to the caller (a rejected promise that is awaited).
Thrown == [kind |-> "thrown"]

\* A ciphertext of which some bytes were changed.
Tampered(blob) == [kind |-> "tampered", blob |-> blob]

\* The PINs a user may type (four digits each).
PINs == {"1234", "0000"}

\* The values window.crypto.getRandomValues returns for a salt.
Salts == {1, 2}

\* The values window.crypto.getRandomValues returns for an AES-GCM IV.
IVs == {1, 2}

\* new Uint8Array(null): the empty byte array.
EmptySalt == 0

(***************************************************************************)
(* CryptoService.                                                          *)
(***************************************************************************)
\* deriveKeyFromPIN: PBKDF2 is deterministic and two different (pin, salt)
\* pairs give different keys.
deriveKeyFromPIN(pin, salt) == [pin |-> pin, salt |-> salt]

\* new TextEncoder().encode(data): the UTF-8 bytes of the string, every
\* unpaired surrogate being encoded as U+FFFD.  The JSON texts the program
\* encrypts hold no unpaired surrogate (JSON.stringify escapes them).
TextEncode(data) ==
    IF data.kind = "text"
    THEN Chars([i \in DOMAIN data.text |->
                   IF data.text[i] = LoneSurrogate THEN Replacement ELSE data.text[i]])
    ELSE data

\* new TextDecoder().decode(bytes) of well-formed UTF-8: the string, a
\* leading byte order mark being dropped (ignoreBOM is false).
TextDecode(bytes) ==
    IF bytes.kind = "text" /\ bytes.text # <<>> /\ Head(bytes.text) = BOM
    THEN Chars(Tail(bytes.text))
    ELSE bytes

\* encrypt(data, key) with the random IV it drew: the Base64 string of
\* iv || AES-GCM(key, iv, encode(data)).
encrypt(data, key, iv) ==
    [kind |-> "cipher", key |-> key, iv |-> iv, data |-> TextEncode(data)]

\* Variant: decrypt without its try / catch.
decrypt_NoCatch(blob, key) ==
    IF blob.kind = "cipher" /\ blob.key = key THEN TextDecode(blob.data) ELSE Thrown

\* decrypt(encryptedBase64, key): the plaintext, or null when atob or
\* AES-GCM (wrong key, bad tag, malformed input) throws.
decrypt(blob, key) ==
    IF blob.kind = "cipher" /\ blob.key = key THEN TextDecode(blob.data) ELSE Null

\* JSON.stringify(Array.from(salt)), as stored under 'user_salt'.
SaltToJSON(salt) == [kind |-> "json", array |-> salt]

\* JSON.parse(item) returns: the item is JSON text, or null (a missing item).
JSONparses(item) == item.kind \in {"json", "null"}

\* new Uint8Array(JSON.parse(item)) of the item stored under 'user_salt'.
SaltFromJSON(item) == IF item.kind = "json" THEN item.array ELSE EmptySalt

(***************************************************************************)
(* Callers of StorageService.execute.                                      *)
(***************************************************************************)
Calls == 1..MaxCalls

CallOwner(i) == [op |-> "Settings.set", n |-> i]

CallOwners == {CallOwner(i) : i \in Calls}

Handler(name) == [op |-> name, n |-> 0]

\* A second call of StorageService.init().
InitAgain == [op |-> "init", n |-> 1]

Handlers ==
    {Handler("init"), InitAgain, Handler("saveNote"), Handler("deleteNote"),
     Handler("saveEvent"), Handler("Event.delete"), Handler("importData")}

Owners == CallOwners \cup Handlers

(***************************************************************************)
(* The settings table: key TEXT PRIMARY KEY, value TEXT NOT NULL.          *)
(***************************************************************************)
SettingKeys == {"theme", "lang"}

SettingValues == BOOLEAN

\* JSON.stringify of a boolean.
JSONstringify(v) == IF v THEN "true" ELSE "false"

\* createSchema: the three tables exist and are empty.  A table is the set of
\* its rows.
EmptyDb == [notes |-> {}, events |-> {}, settings |-> {}]

\* REPLACE INTO settings (key, value) VALUES (?, ?)
ReplaceIntoSettings(d, k, json) ==
    [d EXCEPT !.settings =
        {r \in @ : r.key # k} \cup {[key |-> k, value |-> json]}]

(***************************************************************************)
(* StorageService.scheduleSave up to its first await: the new object and   *)
(* whether saveDbToIndexedDB was called.                                   *)
(***************************************************************************)
\* The StorageService object before init.
NewStorageService ==
    [db |-> Null, isInitialized |-> FALSE, isSaving |-> FALSE, saveQueue |-> FALSE]

\* Variant: the isSaving test is missing, every request starts a write.
scheduleSave_NoGuard(S) ==
    [svc |-> [S EXCEPT !.isSaving = TRUE], write |-> TRUE]

\* Variant: a request made while a save is running is forgotten.
scheduleSave_DropsRequest(S) ==
    IF S.isSaving
    THEN [svc |-> S, write |-> FALSE]
    ELSE [svc |-> [S EXCEPT !.isSaving = TRUE], write |-> TRUE]

scheduleSave(S) ==
    IF S.isSaving
    THEN [svc |-> [S EXCEPT !.saveQueue = TRUE], write |-> FALSE]
    ELSE [svc |-> [S EXCEPT !.isSaving = TRUE], write |-> TRUE]

\* Variant: the pending flag is cleared but the follow-up write is not made.
afterSave_NoFollowUp(S) ==
    [svc |-> [S EXCEPT !.isSaving = FALSE, !.saveQueue = FALSE], write |-> FALSE]

\* Variant: isSaving is reset and the pending flag is left as it is.
afterSave_LeavesPending(S) ==
    [svc |-> [S EXCEPT !.isSaving = FALSE], write |-> FALSE]

\* Variant: the follow-up write is made but the pending flag stays set.
afterSave_KeepsPending(S) ==
    LET S1 == [S EXCEPT !.isSaving = FALSE]
    IN  IF S1.saveQueue
        THEN scheduleSave(S1)
        ELSE [svc |-> S1, write |-> FALSE]

\* scheduleSave after `await this.saveDbToIndexedDB()` has resolved.
afterSave(S) ==
    LET S1 == [S EXCEPT !.isSaving = FALSE]
    IN  IF S1.saveQueue
        THEN scheduleSave([S1 EXCEPT !.saveQueue = FALSE])
        ELSE [svc |-> S1, write |-> FALSE]

(***************************************************************************)
(* History: the Settings.set calls whose db.run has happened, and what a   *)
(* snapshot taken now holds (db.export() plus the calls it reflects).      *)
(***************************************************************************)
Applied == {i \in Calls : pc[CallOwner(i)] # "idle"}

Snapshot(d, has) == [data |-> d, has |-> has]

\* A continuation is queued as a microtask.
MicrotaskPending == \E o \in Owners : pc[o] \in {"resuming", "throwing"}

(***************************************************************************)
(* StorageService.execute by owner o, the database after db.run being      *)
(* newdb: db.run, then scheduleSave up to its await.                       *)
(***************************************************************************)
ExecuteOn(S, o, newdb) ==
    LET r == scheduleSave([S EXCEPT !.db = newdb])
        has == Applied \cup {i \in Calls : CallOwner(i) = o}
    IN  /\ S.isInitialized
        /\ StorageService' = r.svc
        /\ inflight' = IF r.write
                       THEN inflight \cup {[owner |-> o, snap |-> Snapshot(newdb, has)]}
                       ELSE inflight
        /\ writes' = IF r.write /\ o \in CallOwners THEN writes + 1 ELSE writes
        /\ pc' = [pc EXCEPT ![o] = IF r.write THEN "saving" ELSE "resuming"]
        /\ UNCHANGED <<durable, ioFailed>>

ExecuteBy(o, newdb) == ExecuteOn(StorageService, o, newdb)

\* transaction.oncomplete of the write w: the file is stored, the promise
\* resolves and scheduleSave continues after its await.
WriteComplete(w) ==
    LET r == afterSave(StorageService)
    IN  /\ w \in inflight
        /\ ~MicrotaskPending
        /\ durable' = w.snap
        /\ StorageService' = r.svc
        /\ inflight' = IF r.write
                       THEN (inflight \ {w}) \cup
                            {[owner |-> w.owner,
                              snap |-> Snapshot(StorageService.db, Applied)]}
                       ELSE inflight \ {w}
        /\ writes' = IF r.write /\ w.owner \in CallOwners THEN writes + 1 ELSE writes
        /\ pc' = [pc EXCEPT ![w.owner] = IF r.write THEN "saving" ELSE "resuming"]
        /\ UNCHANGED ioFailed

\* request.onerror / transaction.onerror of the write w: the promise rejects
\* and the await in scheduleSave throws; nothing is stored.
WriteFail(w) ==
    /\ w \in inflight
    /\ ~MicrotaskPending
    /\ inflight' = inflight \ {w}
    /\ pc' = [pc EXCEPT ![w.owner] = "throwing"]
    /\ ioFailed' = ioFailed \cup {w.owner}
    /\ UNCHANGED <<StorageService, durable, writes>>

(***************************************************************************)
(* The persistence engine alone: MaxCalls callers of Settings.set on an    *)
(* initialized engine whose database was loaded from IndexedDB.            *)
(***************************************************************************)
\* Settings.set(key, value) by call i, up to the await in scheduleSave.
SettingsSet(i, k, v) ==
    /\ pc[CallOwner(i)] = "idle"
    /\ ExecuteBy(CallOwner(i),
                 ReplaceIntoSettings(StorageService.db, k, JSONstringify(v)))
    /\ UNCHANGED appVars

\* The await in execute resumes: execute returns to its caller, or the
\* rejection of scheduleSave reaches the caller of execute.
ExecuteSettle(i) ==
    /\ pc[CallOwner(i)] \in {"resuming", "throwing"}
    /\ pc' = [pc EXCEPT ![CallOwner(i)] =
                 IF pc[CallOwner(i)] = "resuming" THEN "returned" ELSE "rejected"]
    /\ UNCHANGED <<StorageService, durable, inflight, writes, ioFailed, appVars>>

CallStep == \E i \in Calls, k \in SettingKeys, v \in SettingValues : SettingsSet(i, k, v)

SettleStep == \E i \in Calls : ExecuteSettle(i)

CompleteStep == \E w \in inflight : WriteComplete(w) /\ UNCHANGED appVars

FailStep == \E w \in inflight : WriteFail(w) /\ UNCHANGED appVars

(***************************************************************************)
(* authController.                                                         *)
(***************************************************************************)
\* The controllers that listen to 'app-unlocked'.
Controllers == {"notes", "events", "calendar", "settings"}

\* No item is stored.
EmptyLocalStorage == [user_salt |-> Null, verification_data |-> Null]

\* Variant: init does not read the stored credentials.
authInit_IgnoresStorage(ls) ==
    [isLocked |-> TRUE, isNewUser |-> TRUE, masterKey |-> Null]

\* authController(): the initial object, and init().
authInit(ls) ==
    [isLocked |-> TRUE,
     isNewUser |-> (ls.user_salt = Null \/ ls.verification_data = Null),
     masterKey |-> Null]

\* Variant: the result of decrypt is not compared.
unlockVerified_AnyResult(decrypted) == TRUE

\* handleUnlockAttempt: decrypted === 'verified'.
unlockVerified(decrypted) == decrypted = Text("verified")

\* handleUnlockAttempt: the key derived from the PIN and the stored salt.
attemptKey(pin) == deriveKeyFromPIN(pin, SaltFromJSON(localStorage.user_salt))

\* The user acts on a page that is not about to be unloaded; continuations
\* that are due run until the page is gone.
UserCanAct == ~unloading

\* 'app-unlocked' as the controllers' listeners handle it.
onAppUnlocked(keys, key) ==
    [c \in Controllers |-> IF keys[c] = Null THEN key ELSE keys[c]]

\* The controllers whose 'app-unlocked' listener starts a load (loadNotes,
\* generateCalendar).
LoadingControllers == {"notes", "calendar"}

\* Variant: the listeners load whenever the event arrives.
loadsOnUnlock_Always(keys, loads) ==
    [c \in Controllers |-> IF c \in LoadingControllers THEN loads[c] + 1 ELSE loads[c]]

\* 'app-unlocked' as the listeners handle it: the loads they start.
loadsOnUnlock(keys, loads) ==
    [c \in Controllers |->
        IF keys[c] = Null /\ c \in LoadingControllers THEN loads[c] + 1 ELSE loads[c]]

\* handleUnlockAttempt({detail: {pin}}).
HandleUnlockAttempt(pin) ==
    LET key == attemptKey(pin)
        decrypted == decrypt(localStorage.verification_data, key)
    IN  /\ UserCanAct
        /\ IF ~JSONparses(localStorage.user_salt) \/ decrypted = Thrown
           THEN /\ lastDispatch' = "threw"
                /\ UNCHANGED <<auth, ctrlKey, publishes, initialLoads>>
           ELSE IF unlockVerified(decrypted)
           THEN /\ publishes < MaxPublishes
                /\ auth' = [auth EXCEPT !.masterKey = key, !.isLocked = FALSE]
                /\ lastDispatch' = "app-unlocked"
                /\ publishes' = publishes + 1
                /\ ctrlKey' = onAppUnlocked(ctrlKey, key)
                /\ initialLoads' = loadsOnUnlock(ctrlKey, initialLoads)
           ELSE /\ lastDispatch' = "unlock-failed"
                /\ UNCHANGED <<auth, ctrlKey, publishes, initialLoads>>
        /\ UNCHANGED <<localStorage, setupCalls, unloading, setupPin, storeVars, dataVars>>

\* The page is loaded anew: the old page and all its objects are gone, a
\* write in flight is either stored or lost, and the new page constructs its
\* controllers (authController.init reads localStorage).
Reloaded(ls) ==
    /\ auth' = authInit(ls)
    /\ ctrlKey' = [c \in Controllers |-> Null]
    /\ publishes' = 0
    /\ initialLoads' = [c \in Controllers |-> 0]
    /\ lastDispatch' = "none"
    /\ setupCalls' = {}
    /\ unloading' = FALSE
    /\ StorageService' = NewStorageService
    /\ durable' \in {durable} \cup {w.snap : w \in inflight}
    /\ inflight' = {}
    /\ pc' = [o \in Owners |-> "idle"]
    /\ ioFailed' = {}
    /\ importCall' = Null
    /\ lastImport' = Null
    /\ UNCHANGED writes

\* Variant: setup keeps the PIN beside the salt.
setupItems_KeepsPIN(pin, salt, verificationData) ==
    [user_salt |-> Text(pin), verification_data |-> verificationData]

\* setupNewPIN: the two localStorage.setItem calls.
setupItems(pin, salt, verificationData) ==
    [user_salt |-> SaltToJSON(salt), verification_data |-> verificationData]

\* setupNewPIN(pin) up to its first await: the isNewUser test, generateSalt.
\* Nothing keeps a second call from starting while one is suspended.
SetupStart(pin, salt) ==
    /\ UserCanAct
    /\ auth.isNewUser
    /\ Cardinality(setupCalls) < MaxSetupCalls
    /\ [pin |-> pin, salt |-> salt] \notin setupCalls
    /\ setupCalls' = setupCalls \cup {[pin |-> pin, salt |-> salt]}
    /\ UNCHANGED <<localStorage, auth, ctrlKey, publishes, initialLoads, lastDispatch,
                   unloading, setupPin, storeVars, dataVars>>

\* setupNewPIN after deriveKeyFromPIN and encrypt: the credentials are
\* stored and window.location.reload() is called.  The reload is a
\* navigation: the page lives on until the new document is there, and a
\* continuation that is due before then still runs.
SetupFinish(call, iv) ==
    /\ call \in setupCalls
    /\ LET key == deriveKeyFromPIN(call.pin, call.salt)
           verificationData == encrypt(Text("verified"), key, iv)
       IN  localStorage' = setupItems(call.pin, call.salt, verificationData)
    /\ setupPin' = call.pin
    /\ setupCalls' = setupCalls \ {call}
    /\ unloading' = TRUE
    /\ UNCHANGED <<auth, ctrlKey, publishes, initialLoads, lastDispatch,
                   storeVars, dataVars>>

\* The stored item is damaged outside the application (storage corruption,
\* developer tools): it becomes text that is no JSON and no ciphertext, or a
\* ciphertext with changed bytes.
TamperItem(item, garbage) ==
    /\ localStorage[item].kind \in {"json", "cipher"}
    /\ localStorage' = [localStorage EXCEPT ![item] = garbage]
    /\ UNCHANGED <<auth, ctrlKey, publishes, initialLoads, lastDispatch,
                   setupCalls, unloading, setupPin, storeVars, dataVars>>

\* The page loads anew: the user reloads it (lock), or the navigation that
\* window.location.reload() started arrives.
Reload ==
    /\ Reloaded(localStorage)
    /\ UNCHANGED <<localStorage, setupPin, nextId, clock, readCall, decryptCall, files, calendar>>

\* new SQL.Database(): a database without tables.
NewDatabase == [tables |-> {}]

\* Variant: the schema is not yet created when init first suspends.
createSchema_Deferred(d) == d

\* createSchema up to the await in execute: db.run(schema) has created the
\* tables notes, events and settings.
createSchema(d) == EmptyDb

\* The database has the three tables.
HasSchema(d) == {"notes", "events", "settings"} \subseteq DOMAIN d

\* StorageService.init(), called once when the page has loaded: the stored
\* file is opened, or a new database is created, isInitialized is set and
\* createSchema runs execute(schema).
StorageInit ==
    /\ UserCanAct
    /\ pc[Handler("init")] = "idle"
    /\ ~StorageService.isInitialized
    /\ IF durable = Null
       THEN ExecuteOn([StorageService EXCEPT !.isInitialized = TRUE],
                      Handler("init"), createSchema(NewDatabase))
       ELSE /\ StorageService' = [StorageService EXCEPT !.db = durable.data,
                                                        !.isInitialized = TRUE]
            /\ pc' = [pc EXCEPT ![Handler("init")] = "done"]
            /\ UNCHANGED <<durable, inflight, writes, ioFailed>>
    /\ UNCHANGED <<authVars, dataVars>>

\* init after createSchema: execute(schema) has returned, or its rejection
\* is caught and isInitialized is reset.
StorageInitSettle ==
    /\ pc[Handler("init")] \in {"resuming", "throwing"}
    /\ pc' = [pc EXCEPT ![Handler("init")] = "done"]
    /\ StorageService' =
          IF pc[Handler("init")] = "throwing"
          THEN [StorageService EXCEPT !.isInitialized = FALSE]
          ELSE StorageService
    /\ UNCHANGED <<durable, inflight, writes, ioFailed, authVars, dataVars>>

\* StorageService.init() whose initSqlJs or loadDbFromIndexedDB rejects: the
\* catch leaves isInitialized false and no database.
StorageInitFail ==
    /\ pc[Handler("init")] = "idle"
    /\ ~StorageService.isInitialized
    /\ pc' = [pc EXCEPT ![Handler("init")] = "done"]
    /\ UNCHANGED <<StorageService, durable, inflight, writes, ioFailed, appVars>>

\* StorageService.init() by call o up to its first await: the isInitialized
\* test is passed, initSqlJs and loadDbFromIndexedDB are awaited.
InitBegin(o) ==
    /\ UserCanAct
    /\ pc[o] = "idle"
    /\ ~StorageService.isInitialized
    /\ pc' = [pc EXCEPT ![o] = "loading"]
    /\ UNCHANGED <<StorageService, durable, inflight, writes, ioFailed, appVars>>

\* init resumes with the file loadDbFromIndexedDB read: this.db is assigned
\* a new SQL.Database, of the file or empty, isInitialized is set and, for
\* an empty one, createSchema runs up to the await in execute.
InitResume(o) ==
    /\ pc[o] = "loading"
    /\ IF durable = Null
       THEN ExecuteOn([StorageService EXCEPT !.isInitialized = TRUE],
                      o, createSchema(NewDatabase))
       ELSE /\ StorageService' = [StorageService EXCEPT !.db = durable.data,
                                                        !.isInitialized = TRUE]
            /\ pc' = [pc EXCEPT ![o] = "done"]
            /\ UNCHANGED <<durable, inflight, writes, ioFailed>>
    /\ UNCHANGED <<authVars, dataVars>>

\* init after createSchema has returned.
InitSettle(o) ==
    /\ pc[o] = "resuming"
    /\ pc' = [pc EXCEPT ![o] = "done"]
    /\ UNCHANGED <<StorageService, durable, inflight, writes, ioFailed, authVars, dataVars>>

\* Settings.get(key) by call i: query returns the rows.
SettingsGet(i) ==
    /\ pc[CallOwner(i)] = "idle"
    /\ StorageService.isInitialized
    /\ pc' = [pc EXCEPT ![CallOwner(i)] = "returned"]
    /\ UNCHANGED <<StorageService, durable, inflight, writes, ioFailed, appVars>>

\* A query or execute by call i on an engine that is not initialized:
\* "Database not initialized." is thrown.
CallRefused(i) ==
    /\ pc[CallOwner(i)] = "idle"
    /\ ~StorageService.isInitialized
    /\ pc' = [pc EXCEPT ![CallOwner(i)] = "refused"]
    /\ UNCHANGED <<StorageService, durable, inflight, writes, ioFailed, appVars>>

(***************************************************************************)
(* The Note and Event repositories.                                        *)
(***************************************************************************)
\* What the note editor hands to saveNote for a new note.
NoteInputs ==
    {[title |-> "A", content |-> "B", tags |-> <<"t">>, is_favorite |-> FALSE]}

\* JSON.stringify(tags).
TagsToJSON(tags) == [kind |-> "tags", tags |-> tags]

\* crypto.randomUUID(): an id that was never returned before.
randomUUID == nextId

\* Date.now().
DateNow == clock

\* Variant: the title is stored as it was typed.
noteRow_PlainTitle(id, data, key, now, ivs) ==
    [id |-> id,
     title_encrypted |-> Text(data.title),
     content_encrypted |-> encrypt(Text(data.content), key, ivs[2]),
     created_at |-> now, updated_at |-> now,
     tags_encrypted |-> encrypt(TagsToJSON(data.tags), key, ivs[3]),
     is_favorite |-> IF data.is_favorite THEN 1 ELSE 0]

\* Note.create: the row it inserts; ivs are the IVs of its three encrypt calls.
noteRow(id, data, key, now, ivs) ==
    [id |-> id,
     title_encrypted |-> encrypt(Text(data.title), key, ivs[1]),
     content_encrypted |-> encrypt(Text(data.content), key, ivs[2]),
     created_at |-> now, updated_at |-> now,
     tags_encrypted |-> encrypt(TagsToJSON(data.tags), key, ivs[3]),
     is_favorite |-> IF data.is_favorite THEN 1 ELSE 0]

\* INSERT INTO notes: a second row with the same primary key is refused.
CanInsert(table, row) == \A r \in table : r.id # row.id

\* encoder.encode(data) and JSON.stringify(tags) of a value that is null.
StringOf(v) == IF v = Null THEN Text("null") ELSE v

TagsStringify(tags) == IF tags = Null THEN Text("null") ELSE TagsToJSON(tags.items)

\* `is_favorite ? 1 : 0` of Note.update: the property is_favorite of
\* updatedData, undefined when the object has none.
is_favorite(updatedData) ==
    IF "is_favorite" \in DOMAIN updatedData THEN updatedData.is_favorite ELSE FALSE

\* Note.update(id, updatedData, masterKey): UPDATE notes SET ... WHERE id = ?.
noteUpdate(row, updatedData, key, now, ivs) ==
    [row EXCEPT
       !.title_encrypted = encrypt(StringOf(updatedData.title), key, ivs[1]),
       !.content_encrypted = encrypt(StringOf(updatedData.content), key, ivs[2]),
       !.updated_at = now,
       !.tags_encrypted = encrypt(TagsStringify(updatedData.tags), key, ivs[3]),
       !.is_favorite = IF is_favorite(updatedData) THEN 1 ELSE 0]

\* Note.update with the editor's copy of a loaded note in which the user has
\* typed data: the copy has no is_favorite property.
noteUpdated(row, data, key, now, ivs) ==
    noteUpdate(row,
               [title |-> Text(data.title), content |-> Text(data.content),
                tags |-> [kind |-> "array", items |-> data.tags]],
               key, now, ivs)

\* What the event editor hands to saveEvent.
EventInputs ==
    {[title |-> "E", description |-> "", startTime |-> 10, endTime |-> 20,
      isAllDay |-> FALSE, calendarType |-> "gregorian", rrule |-> Null],
     [title |-> "E", description |-> "D", startTime |-> 20, endTime |-> 30,
      isAllDay |-> TRUE, calendarType |-> "hijri", rrule |-> Text("FREQ=DAILY")]}

\* Event.create / Event.update: the encrypted columns; rrule is encrypted
\* only when it is given.
eventRow(id, data, key, ivs) ==
    [id |-> id,
     title_encrypted |-> encrypt(Text(data.title), key, ivs[1]),
     description_encrypted |-> encrypt(Text(data.description), key, ivs[2]),
     start_time |-> data.startTime, end_time |-> data.endTime,
     is_all_day |-> IF data.isAllDay THEN 1 ELSE 0,
     calendar_type |-> data.calendarType,
     rrule_encrypted |-> IF data.rrule # Null
                         THEN encrypt(data.rrule, key, ivs[3]) ELSE Null]

\* The IVs the three successive encrypt calls of one save draw.
IVTriples == {<<1, 2, 1>>}

\* The random values drawn in the whole application: one outcome each.
AppSalts == {1}

\* The PIN chosen at setup in the whole application; attempts draw from PINs.
AppSetupPINs == {"1234"}

\* The event form as first filled in (no recurrence) and as edited.
NewEventInputs == {d \in EventInputs : d.rrule = Null}

EditedEventInputs == {d \in EventInputs : d.rrule # Null}

AppIVs == {1}

\* A handler that awaits execute resumes after it returned or threw; what
\* follows (closeEditor, loadNotes, 'events-updated') changes no stored data.
HandlerSettle(name) ==
    /\ name \in {"saveNote", "deleteNote", "saveEvent"}
    /\ pc[Handler(name)] \in {"resuming", "throwing"}
    /\ pc' = [pc EXCEPT ![Handler(name)] = "idle"]
    /\ UNCHANGED <<StorageService, durable, inflight, writes, ioFailed, authVars, dataVars>>

\* notesController.saveNote(noteData) for a new note: Note.create.
SaveNewNote(data, ivs) ==
    /\ UserCanAct
    /\ pc[Handler("saveNote")] = "idle"
    /\ ctrlKey["notes"] # Null
    /\ nextId <= MaxIds
    /\ LET row == noteRow(randomUUID, data, ctrlKey["notes"], DateNow, ivs)
       IN  ExecuteBy(Handler("saveNote"),
                     [StorageService.db EXCEPT !.notes = @ \cup {row}])
    /\ nextId' = nextId + 1
    /\ UNCHANGED <<authVars, clock, readCall, decryptCall, files, calendar, importCall, lastImport>>

\* notesController.saveNote(noteData) for a note of the list: Note.update.
SaveEditedNote(id, data, ivs) ==
    /\ UserCanAct
    /\ pc[Handler("saveNote")] = "idle"
    /\ ctrlKey["notes"] # Null
    /\ StorageService.isInitialized
    /\ \E row \in StorageService.db.notes :
         /\ row.id = id
         /\ ExecuteBy(Handler("saveNote"),
                      [StorageService.db EXCEPT !.notes =
                          (@ \ {row}) \cup
                          {noteUpdated(row, data, ctrlKey["notes"], DateNow, ivs)}])
    /\ UNCHANGED <<authVars, dataVars>>

\* notesController.deleteNote(noteId), confirmed: Note.delete.
DeleteNote(id) ==
    /\ UserCanAct
    /\ pc[Handler("deleteNote")] = "idle"
    /\ StorageService.isInitialized
    /\ \E row \in StorageService.db.notes : row.id = id
    /\ ExecuteBy(Handler("deleteNote"),
                 [StorageService.db EXCEPT !.notes = {r \in @ : r.id # id}])
    /\ UNCHANGED <<authVars, dataVars>>

\* eventController.saveEvent() for a new event: Event.create.
SaveNewEvent(data, ivs) ==
    /\ UserCanAct
    /\ pc[Handler("saveEvent")] = "idle"
    /\ ctrlKey["events"] # Null
    /\ nextId <= MaxIds
    /\ LET row == eventRow(randomUUID, data, ctrlKey["events"], ivs)
       IN  ExecuteBy(Handler("saveEvent"),
                     [StorageService.db EXCEPT !.events = @ \cup {row}])
    /\ nextId' = nextId + 1
    /\ UNCHANGED <<authVars, clock, readCall, decryptCall, files, calendar, importCall, lastImport>>

\* eventController.saveEvent() for an existing event: Event.update.
SaveEditedEvent(id, data, ivs) ==
    /\ UserCanAct
    /\ pc[Handler("saveEvent")] = "idle"
    /\ ctrlKey["events"] # Null
    /\ StorageService.isInitialized
    /\ \E row \in StorageService.db.events :
         /\ row.id = id
         /\ ExecuteBy(Handler("saveEvent"),
                      [StorageService.db EXCEPT !.events =
                          (@ \ {row}) \cup {eventRow(id, data, ctrlKey["events"], ivs)}])
    /\ UNCHANGED <<authVars, dataVars>>

\* Event.delete(id): DELETE FROM events WHERE id = ?.  No controller of the
\* application calls it; the caller awaits it and nothing else follows.
DeleteEvent(id) ==
    /\ UserCanAct
    /\ pc[Handler("Event.delete")] = "idle"
    /\ StorageService.isInitialized
    /\ \E row \in StorageService.db.events : row.id = id
    /\ ExecuteBy(Handler("Event.delete"),
                 [StorageService.db EXCEPT !.events = {r \in @ : r.id # id}])
    /\ UNCHANGED <<authVars, dataVars>>

DeleteEventSettle ==
    /\ pc[Handler("Event.delete")] \in {"resuming", "throwing"}
    /\ pc' = [pc EXCEPT ![Handler("Event.delete")] = "idle"]
    /\ UNCHANGED <<StorageService, durable, inflight, writes, ioFailed, authVars, dataVars>>

(***************************************************************************)
(* The repositories' reads.                                                *)
(***************************************************************************)
\* JSON.parse(text) of a decrypted tags column: the array, null for null,
\* and an exception for text that is no JSON.
JSONparse(v) ==
    IF v = Null THEN Null
    ELSE IF v.kind = "tags" THEN [kind |-> "array", items |-> v.tags]
    ELSE Thrown

\* Note.decryptRow(row, masterKey).
NoteDecryptRow(row, key) ==
    LET title == decrypt(row.title_encrypted, key)
        content == decrypt(row.content_encrypted, key)
        tagsJson == decrypt(row.tags_encrypted, key)
        tags == IF tagsJson = Thrown THEN Thrown ELSE JSONparse(tagsJson)
    IN  IF title = Thrown \/ content = Thrown \/ tags = Thrown
        THEN Thrown
        ELSE [id |-> row.id, title |-> title, content |-> content, tags |-> tags,
              createdAt |-> row.created_at, updatedAt |-> row.updated_at,
              isFavorite |-> (row.is_favorite = 1)]

\* Event.decryptRow(row, masterKey).
EventDecryptRow(row, key) ==
    LET title == decrypt(row.title_encrypted, key)
        description == decrypt(row.description_encrypted, key)
        rrule == IF row.rrule_encrypted # Null
                 THEN decrypt(row.rrule_encrypted, key) ELSE Null
    IN  IF title = Thrown \/ description = Thrown \/ rrule = Thrown
        THEN Thrown
        ELSE [id |-> row.id, title |-> title, description |-> description,
              startTime |-> row.start_time, endTime |-> row.end_time,
              isAllDay |-> (row.is_all_day = 1),
              calendarType |-> row.calendar_type, rrule |-> rrule]

\* Promise.all(rows.map(decryptRow)): the records, or the first rejection.
Rows(records) == [kind |-> "rows", rows |-> records]

\* Variant: findAll rejects when a field of some row did not decrypt.
NoteFindAll_RejectsOnNull(table, key) ==
    IF \E row \in table :
          \/ NoteDecryptRow(row, key) = Thrown
          \/ NoteDecryptRow(row, key).title = Null
          \/ NoteDecryptRow(row, key).content = Null
          \/ NoteDecryptRow(row, key).tags = Null
    THEN Thrown
    ELSE Rows({NoteDecryptRow(row, key) : row \in table})

\* Note.findAll(masterKey).
NoteFindAll(table, key) ==
    IF \E row \in table : NoteDecryptRow(row, key) = Thrown
    THEN Thrown
    ELSE Rows({NoteDecryptRow(row, key) : row \in table})

\* Note.findById(id, masterKey).
NoteFindById(table, id, key) ==
    IF \A row \in table : row.id # id
    THEN Null
    ELSE NoteDecryptRow(CHOOSE row \in table : row.id = id, key)

\* The rows of the set in the orders in which start_time ascends (rows of
\* equal start_time come in the order SQLite finds them).
AscendingByStartTime(rows) ==
    {seq \in [1..Cardinality(rows) -> rows] :
        /\ \A i, j \in DOMAIN seq : i # j => seq[i] # seq[j]
        /\ \A i, j \in DOMAIN seq : i < j => seq[i].start_time <= seq[j].start_time}

\* Variant: the bounds of the range are excluded.
SelectEventsInRange_Exclusive(table, startDate, endDate) ==
    AscendingByStartTime({row \in table : row.start_time > startDate
                                          /\ row.start_time < endDate})

\* SELECT * FROM events WHERE start_time >= ? AND start_time <= ?
\* ORDER BY start_time ASC: the row lists the query may return.
SelectEventsInRange(table, startDate, endDate) ==
    AscendingByStartTime({row \in table : row.start_time >= startDate
                                          /\ row.start_time <= endDate})

\* Event.findByDateRange(startDate, endDate, masterKey), rows being what
\* its query returned: Promise.all keeps the order of the rows.
EventFindByDateRange(rows, key) ==
    IF \E i \in DOMAIN rows : EventDecryptRow(rows[i], key) = Thrown
    THEN Thrown
    ELSE Rows([i \in DOMAIN rows |-> EventDecryptRow(rows[i], key)])

\* A repository read by a caller that holds key: StorageService.query
\* changes nothing.
ReadNotes(key) ==
    /\ StorageService.isInitialized
    /\ decryptCall' = decryptCall
    /\ readCall' = [op |-> "Note.findAll", key |-> key, id |-> 0,
                    table |-> StorageService.db.notes,
                    result |-> NoteFindAll(StorageService.db.notes, key)]
    /\ UNCHANGED <<storeVars, authVars, nextId, clock, files, calendar, importCall, lastImport>>

ReadNote(id, key) ==
    /\ StorageService.isInitialized
    /\ decryptCall' = decryptCall
    /\ readCall' = [op |-> "Note.findById", key |-> key, id |-> id,
                    table |-> StorageService.db.notes,
                    result |-> NoteFindById(StorageService.db.notes, id, key)]
    /\ UNCHANGED <<storeVars, authVars, nextId, clock, files, calendar, importCall, lastImport>>

ReadEvents(startDate, endDate, key) ==
    /\ StorageService.isInitialized
    /\ decryptCall' = decryptCall
    /\ \E rows \in SelectEventsInRange(StorageService.db.events, startDate, endDate) :
         readCall' = [op |-> "Event.findByDateRange", key |-> key, id |-> 0,
                      table |-> {rows[i] : i \in DOMAIN rows},
                      events |-> StorageService.db.events,
                      range |-> <<startDate, endDate>>,
                      result |-> EventFindByDateRange(rows, key)]
    /\ UNCHANGED <<storeVars, authVars, nextId, clock, files, calendar, importCall, lastImport>>

\* The month the calendar displays: new Date(year, month, 1) to the last
\* second of the month.
DisplayedMonth == <<5, 15>>

\* calendarController.loadEventsForMonth(), run by the 'events-updated'
\* listener: nothing without the key, else Event.findByDateRange over the
\* displayed month.
LoadEventsForMonth ==
    IF ctrlKey["calendar"] = Null
    THEN readCall' = readCall
    ELSE \E rows \in SelectEventsInRange(StorageService.db.events,
                                         DisplayedMonth[1], DisplayedMonth[2]) :
            readCall' = [op |-> "Event.findByDateRange", key |-> ctrlKey["calendar"],
                         id |-> 0,
                         table |-> {rows[i] : i \in DOMAIN rows},
                         events |-> StorageService.db.events,
                         range |-> DisplayedMonth,
                         result |-> EventFindByDateRange(rows, ctrlKey["calendar"])]

\* The finally block of eventController.saveEvent(), after Event.create or
\* Event.update returned or threw: window.dispatchEvent('events-updated')
\* runs the calendar's listener before it returns.
SaveEventFinally ==
    /\ pc[Handler("saveEvent")] \in {"resuming", "throwing"}
    /\ pc' = [pc EXCEPT ![Handler("saveEvent")] = "idle"]
    /\ lastDispatch' = "events-updated"
    /\ LoadEventsForMonth
    /\ UNCHANGED <<StorageService, durable, inflight, writes, ioFailed, localStorage,
                   auth, ctrlKey, publishes, initialLoads, setupCalls, unloading,
                   setupPin, nextId, clock, decryptCall, files, calendar, importCall, lastImport>>

(***************************************************************************)
(* settingsController: exportData and importData.                          *)
(***************************************************************************)
\* Variant: the backup object without the credentials.
backupJSON_NoCredentials(notes, events, ls, now) ==
    [kind |-> "backup", version |-> 1, exportedAt |-> now,
     salt |-> Null, verificationData |-> Null,
     notes |-> notes, events |-> events]

\* exportData: JSON.stringify(backupObject).
backupJSON(notes, events, ls, now) ==
    [kind |-> "backup", version |-> 1, exportedAt |-> now,
     salt |-> ls.user_salt, verificationData |-> ls.verification_data,
     notes |-> notes, events |-> events]

\* exportData(): the downloaded file.
ExportData(iv) ==
    /\ UserCanAct
    /\ ctrlKey["settings"] # Null
    /\ StorageService.isInitialized
    /\ LET blob == encrypt(backupJSON(StorageService.db.notes, StorageService.db.events,
                                      localStorage, DateNow),
                           ctrlKey["settings"], iv)
       IN  /\ blob \notin files
           /\ Cardinality(files) < MaxFiles
           /\ files' = files \cup {blob}
    /\ UNCHANGED <<storeVars, authVars, nextId, clock, readCall, decryptCall, importCall,
                   lastImport, calendar>>

\* Variant: the key is derived with the salt of the device that exported.
importKey_ExportingSalt(pin) == deriveKeyFromPIN(pin, 2)

\* importData: the key it derives from the PIN and this device's salt.
importKey(pin) == deriveKeyFromPIN(pin, SaltFromJSON(localStorage.user_salt))

\* The row importData inserts next: the rows of the backup in id order.
FirstRow(rows) == CHOOSE r \in rows : \A q \in rows : r.id <= q.id

\* JSON.parse(backupJson) returns: the text is the JSON of a backup, or of
\* some other object; it throws for null-decrypted or other text.
ImportParses(backupJson) == backupJson.kind \in {"backup", "object"}

\* What importData is about to replace.
BeforeImport == [db |-> StorageService.db, localStorage |-> localStorage]

\* How an importData call ended.
ImportEnded(outcome, data, before) ==
    [outcome |-> outcome, data |-> data, before |-> before]

\* importData(file, pin), confirmed, whose decryption or JSON.parse fails:
\* the throw reaches the catch before any statement was executed.
ImportReject(file, pin) ==
    LET backupJson == decrypt(file, importKey(pin))
    IN  /\ UserCanAct
        /\ pc[Handler("importData")] = "idle"
        /\ importCall = Null
        /\ \/ ~JSONparses(localStorage.user_salt)
           \/ backupJson = Null
           \/ ~ImportParses(backupJson)
        /\ lastImport' = [outcome |-> "rejected", data |-> Null,
                          before |-> BeforeImport, pin |-> pin,
                          fileKey |-> IF file.kind = "cipher" THEN file.key ELSE Null]
        /\ UNCHANGED <<storeVars, authVars, nextId, clock, readCall, decryptCall,
                       files, calendar, importCall>>

\* importData(file, pin), confirmed, up to the await of its first execute:
\* the file is decrypted and parsed, then DELETE FROM notes runs.
ImportStart(file, pin) ==
    LET backupJson == decrypt(file, importKey(pin))
    IN  /\ UserCanAct
        /\ pc[Handler("importData")] = "idle"
        /\ importCall = Null
        /\ JSONparses(localStorage.user_salt)
        /\ backupJson # Null
        /\ ImportParses(backupJson)
        /\ ExecuteBy(Handler("importData"), [StorageService.db EXCEPT !.notes = {}])
        /\ importCall' = [next |-> "deleteEvents", data |-> backupJson,
                          notes |-> IF backupJson.kind = "backup"
                                    THEN backupJson.notes ELSE {},
                          events |-> IF backupJson.kind = "backup"
                                     THEN backupJson.events ELSE {},
                          before |-> BeforeImport]
        /\ lastImport' = Null
        /\ UNCHANGED <<authVars, nextId, clock, readCall, decryptCall, files, calendar>>

\* importData after DELETE FROM notes has returned: DELETE FROM events.
ImportDeleteEvents ==
    /\ pc[Handler("importData")] = "resuming"
    /\ importCall.next = "deleteEvents"
    /\ ExecuteBy(Handler("importData"), [StorageService.db EXCEPT !.events = {}])
    /\ importCall' = [importCall EXCEPT !.next = "insert"]
    /\ UNCHANGED <<authVars, nextId, clock, readCall, decryptCall, files, calendar, lastImport>>

\* importData after DELETE FROM events has returned, the parsed object
\* having no data.notes: the for loop throws into the catch.
ImportSchemaMismatch ==
    /\ pc[Handler("importData")] = "resuming"
    /\ importCall.next = "insert"
    /\ importCall.data.kind # "backup"
    /\ pc' = [pc EXCEPT ![Handler("importData")] = "idle"]
    /\ lastImport' = ImportEnded("schema", importCall.data, importCall.before)
    /\ importCall' = Null
    /\ UNCHANGED <<StorageService, durable, inflight, writes, ioFailed,
                   authVars, nextId, clock, readCall, decryptCall, files, calendar>>

\* importData after an execute has returned: the next note of the backup is
\* inserted; a primary key that is already there makes db.run throw.
ImportInsertNote ==
    /\ pc[Handler("importData")] = "resuming"
    /\ importCall.next = "insert"
    /\ importCall.data.kind = "backup"
    /\ importCall.notes # {}
    /\ LET row == FirstRow(importCall.notes)
       IN  IF CanInsert(StorageService.db.notes, row)
           THEN /\ ExecuteBy(Handler("importData"),
                             [StorageService.db EXCEPT !.notes = @ \cup {row}])
                /\ importCall' = [importCall EXCEPT !.notes = @ \ {row}]
           ELSE /\ pc' = [pc EXCEPT ![Handler("importData")] = "throwing"]
                /\ UNCHANGED <<StorageService, durable, inflight, writes, ioFailed,
                               importCall>>
    /\ UNCHANGED <<authVars, nextId, clock, readCall, decryptCall, files, calendar, lastImport>>

\* importData after the notes: the next event of the backup is inserted.
ImportInsertEvent ==
    /\ pc[Handler("importData")] = "resuming"
    /\ importCall.next = "insert"
    /\ importCall.data.kind = "backup"
    /\ importCall.notes = {}
    /\ importCall.events # {}
    /\ LET row == FirstRow(importCall.events)
       IN  IF CanInsert(StorageService.db.events, row)
           THEN /\ ExecuteBy(Handler("importData"),
                             [StorageService.db EXCEPT !.events = @ \cup {row}])
                /\ importCall' = [importCall EXCEPT !.events = @ \ {row}]
           ELSE /\ pc' = [pc EXCEPT ![Handler("importData")] = "throwing"]
                /\ UNCHANGED <<StorageService, durable, inflight, writes, ioFailed,
                               importCall>>
    /\ UNCHANGED <<authVars, nextId, clock, readCall, decryptCall, files, calendar, lastImport>>

\* Variant: importData leaves the stored credentials as they are.
importItems_KeepsDevice(data) == localStorage

\* The two localStorage.setItem calls of importData.
importItems(data) ==
    [user_salt |-> data.salt, verification_data |-> data.verificationData]

\* importData after its last execute: the credentials of the backup replace
\* the stored ones and the page reloads.
ImportFinish ==
    /\ pc[Handler("importData")] = "resuming"
    /\ importCall.next = "insert"
    /\ importCall.data.kind = "backup"
    /\ importCall.notes = {}
    /\ importCall.events = {}
    /\ localStorage' = importItems(importCall.data)
    /\ unloading' = TRUE
    /\ pc' = [pc EXCEPT ![Handler("importData")] = "idle"]
    /\ lastImport' = ImportEnded("completed", importCall.data, importCall.before)
    /\ importCall' = Null
    /\ UNCHANGED <<StorageService, durable, inflight, writes, ioFailed,
                   auth, ctrlKey, publishes, initialLoads, lastDispatch,
                   setupCalls, setupPin, nextId, clock, readCall, decryptCall, files, calendar>>

\* importData's catch: an execute threw, the import stops where it is.
ImportCatch ==
    /\ pc[Handler("importData")] = "throwing"
    /\ pc' = [pc EXCEPT ![Handler("importData")] = "idle"]
    /\ lastImport' = ImportEnded("execute", importCall.data, importCall.before)
    /\ importCall' = Null
    /\ UNCHANGED <<StorageService, durable, inflight, writes, ioFailed,
                   authVars, nextId, clock, readCall, decryptCall, files, calendar>>

(***************************************************************************)
(* notesController: the note editor.                                       *)
(***************************************************************************)
\* What loadNotes() assigns to this.notes.
LoadedNotes(key) ==
    [op |-> "Note.findAll", key |-> key, id |-> 0,
     table |-> StorageService.db.notes,
     result |-> NoteFindAll(StorageService.db.notes, key)]

\* editNote(noteId) then saveNote(activeNote) with nothing typed: activeNote
\* is a copy of the object of this.notes with that id, and Note.update is
\* called with it.
EditAndSaveNote(id, ivs) ==
    /\ UserCanAct
    /\ pc[Handler("saveNote")] = "idle"
    /\ ctrlKey["notes"] # Null
    /\ StorageService.isInitialized
    /\ readCall # Null
    /\ readCall.op = "Note.findAll"
    /\ readCall.result # Thrown
    /\ \E noteToEdit \in readCall.result.rows, row \in StorageService.db.notes :
         /\ noteToEdit.id = id
         /\ row.id = id
         /\ ExecuteBy(Handler("saveNote"),
                      [StorageService.db EXCEPT !.notes =
                          (@ \ {row}) \cup
                          {noteUpdate(row, noteToEdit, ctrlKey["notes"], DateNow, ivs)}])
    /\ UNCHANGED <<authVars, dataVars>>

\* The finally block of saveNote: the editor is closed and loadNotes()
\* reloads this.notes.
SaveNoteFinally ==
    /\ pc[Handler("saveNote")] \in {"resuming", "throwing"}
    /\ pc' = [pc EXCEPT ![Handler("saveNote")] = "idle"]
    /\ readCall' = LoadedNotes(ctrlKey["notes"])
    /\ UNCHANGED <<StorageService, durable, inflight, writes, ioFailed, authVars,
                   nextId, clock, decryptCall, files, calendar, importCall, lastImport>>

(***************************************************************************)
(* calendarController.                                                     *)
(***************************************************************************)
\* The months the calendar can display; the month of new Date().
Months == 1..MaxMonths

Today == 2

\* startDate and endDate of loadEventsForMonth: the first instant of the
\* month and 23:59:59 of its last day.
MonthRange(m) == <<10 * m - 5, 10 * m + 4>>

\* The controller as it is constructed: events is [], no load was started.
\* started counts the loadEventsForMonth calls and shown is the call that
\* assigned events last (history).
CalendarInit ==
    [currentDate |-> Today, events |-> Rows(<<>>), loads |-> {},
     started |-> 0, shown |-> 0]

\* loadEventsForMonth() up to where it is suspended: nothing without the
\* key; else the range of currentDate is computed and the query is run at
\* once.  A month without rows needs no decryption, so Promise.all([])
\* settles and events is assigned before any other task runs; with rows the
\* call is suspended until crypto.subtle has decrypted them.
loadEventsForMonth(cal, table, key) ==
    IF key = Null
    THEN {cal}
    ELSE LET range == MonthRange(cal.currentDate)
             n == cal.started + 1
         IN  {IF rows = <<>>
              THEN [cal EXCEPT !.events = Rows(<<>>), !.started = n, !.shown = n]
              ELSE [cal EXCEPT !.loads = @ \cup {[n |-> n, month |-> cal.currentDate,
                                                  rows |-> rows, key |-> key]},
                               !.started = n]
              : rows \in SelectEventsInRange(table, range[1], range[2])}

\* generateCalendar(): the grid is rebuilt and loadEventsForMonth() is called
\* without being awaited.
generateCalendar(cal) ==
    /\ UserCanAct
    /\ calendar.started < MaxLoads
    /\ calendar' \in loadEventsForMonth(cal, StorageService.db.events, ctrlKey["calendar"])
    /\ UNCHANGED <<storeVars, authVars, nextId, clock, readCall, decryptCall, files,
                   importCall, lastImport>>

nextMonth ==
    /\ calendar.currentDate < MaxMonths
    /\ generateCalendar([calendar EXCEPT !.currentDate = @ + 1])

previousMonth ==
    /\ calendar.currentDate > 1
    /\ generateCalendar([calendar EXCEPT !.currentDate = @ - 1])

goToToday == generateCalendar([calendar EXCEPT !.currentDate = Today])

\* The 'events-updated' listener: loadEventsForMonth() for the month that
\* is displayed.
onEventsUpdated ==
    /\ calendar.started < MaxLoads
    /\ calendar' \in loadEventsForMonth(calendar, StorageService.db.events,
                                         ctrlKey["calendar"])
    /\ UNCHANGED <<storeVars, authVars, nextId, clock, readCall, decryptCall, files,
                   importCall, lastImport>>

\* A suspended loadEventsForMonth() resumes: the decrypted rows are assigned
\* to events, or [] when findByDateRange rejected.  No order is kept between
\* the calls: each assigns when its own decryption is done.
LoadEventsResume(load) ==
    /\ load \in calendar.loads
    /\ LET result == EventFindByDateRange(load.rows, load.key)
       IN  calendar' = [calendar EXCEPT
                          !.events = IF result = Thrown THEN Rows(<<>>) ELSE result,
                          !.loads = @ \ {load},
                          !.shown = load.n]
    /\ UNCHANGED <<storeVars, authVars, nextId, clock, readCall, decryptCall, files,
                   importCall, lastImport>>

(***************************************************************************)
(* Specifications.                                                         *)
(***************************************************************************)
\* The application before its first use: nothing is stored.
InitAppVars ==
    /\ localStorage = EmptyLocalStorage
    /\ auth = authInit(EmptyLocalStorage)
    /\ ctrlKey = [c \in Controllers |-> Null]
    /\ publishes = 0
    /\ initialLoads = [c \in Controllers |-> 0]
    /\ lastDispatch = "none"
    /\ setupCalls = {}
    /\ unloading = FALSE
    /\ setupPin = ""
    /\ nextId = 1
    /\ clock = 0
    /\ readCall = Null
    /\ decryptCall = Null
    /\ files = {}
    /\ calendar = CalendarInit
    /\ importCall = Null
    /\ lastImport = Null

\* The persistence engine alone: an initialized engine whose database was
\* loaded from IndexedDB.
InitStore ==
    /\ StorageService = [db |-> EmptyDb, isInitialized |-> TRUE,
                         isSaving |-> FALSE, saveQueue |-> FALSE]
    /\ durable = Snapshot(EmptyDb, {})
    /\ inflight = {}
    /\ pc = [o \in Owners |-> "idle"]
    /\ writes = 0
    /\ ioFailed = {}
    /\ InitAppVars

NextStore == CallStep \/ SettleStep \/ CompleteStep \/ FailStep

\* Every durable-write may fail.
SpecStore == InitStore /\ [][NextStore]_vars

NextStoreOK == CallStep \/ SettleStep \/ CompleteStep

\* All durable-writes succeed.
SpecStoreOK == InitStore /\ [][NextStoreOK]_vars

\* All durable-writes succeed and complete; pending continuations run.
FairSpecStoreOK == SpecStoreOK /\ WF_vars(CompleteStep) /\ WF_vars(SettleStep)

\* StorageService.init beside MaxCalls callers of Settings.get / set, on
\* first run and on a later run, every step of init being able to fail.
InitInit ==
    /\ StorageService = NewStorageService
    /\ durable \in {Null, Snapshot(EmptyDb, {})}
    /\ inflight = {}
    /\ pc = [o \in Owners |-> "idle"]
    /\ writes = 0
    /\ ioFailed = {}
    /\ InitAppVars

InitStep ==
    \/ StorageInit
    \/ StorageInitFail
    \/ StorageInitSettle

GetStep == \E i \in Calls : SettingsGet(i) 

RefuseStep == \E i \in Calls : CallRefused(i)

NextInit ==
    \/ InitStep
    \/ CallStep \/ GetStep \/ RefuseStep \/ SettleStep
    \/ CompleteStep \/ FailStep

SpecInit == InitInit /\ [][NextInit]_vars

\* The whole application on a device that was never used.
InitApp ==
    /\ StorageService = NewStorageService
    /\ durable = Null
    /\ inflight = {}
    /\ pc = [o \in Owners |-> "idle"]
    /\ writes = 0
    /\ ioFailed = {}
    /\ InitAppVars

AttemptStep == \E pin \in PINs : HandleUnlockAttempt(pin)

\* In the whole application the user types the PIN chosen at setup, on the
\* lock screen; SpecAuth covers the other PINs and repeated attempts.
AppAttemptStep == \E pin \in AppSetupPINs : auth.isLocked /\ HandleUnlockAttempt(pin)

SetupStep == \E pin \in AppSetupPINs, salt \in AppSalts : SetupStart(pin, salt)

SetupFinishStep ==
    \E pin \in AppSetupPINs, salt \in AppSalts, iv \in AppIVs :
        SetupFinish([pin |-> pin, salt |-> salt], iv)

\* The settings view is used by itself: an export or an import starts when
\* no save or delete is under way, and the notes and events views are not
\* used while importData runs.
SettingsViewFree == \A h \in Handlers \ {Handler("init")} : pc[h] = "idle"

NoImportRunning == pc[Handler("importData")] = "idle"

NoteStep ==
    \/ \E data \in NoteInputs, ivs \in IVTriples :
          NoImportRunning /\ SaveNewNote(data, ivs)
    \/ \E id \in 1..MaxIds, data \in NoteInputs, ivs \in IVTriples :
          NoImportRunning /\ SaveEditedNote(id, data, ivs)
    \/ \E id \in 1..MaxIds : NoImportRunning /\ DeleteNote(id)

EventStep ==
    \/ \E data \in NewEventInputs, ivs \in IVTriples :
          NoImportRunning /\ SaveNewEvent(data, ivs)
    \/ \E id \in 1..MaxIds, data \in EditedEventInputs, ivs \in IVTriples :
          NoImportRunning /\ SaveEditedEvent(id, data, ivs)

HandlerStep == \E name \in {"saveNote", "deleteNote", "saveEvent"} : HandlerSettle(name)

ExportStep == \E iv \in AppIVs : SettingsViewFree /\ ExportData(iv)

ImportStep ==
    \/ \E file \in files, pin \in PINs : ImportReject(file, pin)
    \/ \E file \in files, pin \in PINs : ImportStart(file, pin)
    \/ ImportDeleteEvents
    \/ ImportSchemaMismatch
    \/ ImportInsertNote
    \/ ImportInsertEvent
    \/ ImportFinish
    \/ ImportCatch

\* In the application the files are those exportData made: each is a backup.
AppImportStep ==
    \/ \E file \in files, pin \in PINs : SettingsViewFree /\ ImportReject(file, pin)
    \/ \E file \in files, pin \in PINs : SettingsViewFree /\ ImportStart(file, pin)
    \/ ImportDeleteEvents
    \/ ImportInsertNote
    \/ ImportInsertEvent
    \/ ImportFinish
    \/ ImportCatch

NextApp ==
    \/ StorageInit \/ StorageInitSettle
    \/ SetupStep \/ SetupFinishStep \/ AppAttemptStep \/ Reload
    \/ NoteStep \/ EventStep \/ HandlerStep
    \/ ExportStep \/ AppImportStep
    \/ CompleteStep \/ FailStep

SpecApp == InitApp /\ [][NextApp]_vars

\* Authentication alone on a device that was never used: every PIN, salt and
\* IV may be drawn; no note, event or backup is made.
AuthSetupStep == \E pin \in PINs, salt \in Salts : SetupStart(pin, salt)

AuthSetupFinishStep ==
    \E pin \in PINs, salt \in Salts, iv \in IVs :
        SetupFinish([pin |-> pin, salt |-> salt], iv)

NextAuth ==
    \/ StorageInit \/ StorageInitSettle
    \/ AuthSetupStep \/ AuthSetupFinishStep \/ AttemptStep \/ Reload
    \/ CompleteStep \/ FailStep

SpecAuth == InitApp /\ [][NextAuth]_vars

\* Authentication on a device whose stored credentials may be damaged.
TamperStep ==
    \/ TamperItem("verification_data", Text("garbage"))
    \/ TamperItem("verification_data", Tampered(localStorage.verification_data))
    \/ TamperItem("user_salt", Text("garbage"))

NextTamper == NextAuth \/ TamperStep

SpecTamper == InitApp /\ [][NextTamper]_vars

\* Authentication on a device from whose localStorage an item of the
\* Credential Record may be removed.
RemoveStep ==
    \/ TamperItem("verification_data", Null)
    \/ TamperItem("user_salt", Null)

NextRemoved == NextAuth \/ RemoveStep

SpecRemoved == InitApp /\ [][NextRemoved]_vars

\* The repositories' reads over a stored database whose rows may be damaged.
\* The key the rows were written under, and the keys a reader may hold.
StoredKey == deriveKeyFromPIN("1234", 1)

ReadKeys == {deriveKeyFromPIN(pin, 1) : pin \in PINs}

\* A stored note row as Note.create wrote it, and with one column damaged.
StoredNoteRows(id) ==
    LET row == noteRow(id, CHOOSE data \in NoteInputs : TRUE, StoredKey, 0, <<1, 2, 1>>)
    IN  {row,
         [row EXCEPT !.title_encrypted = Tampered(@)],
         [row EXCEPT !.content_encrypted = Text("garbage")],
         [row EXCEPT !.tags_encrypted = Tampered(@)]}

\* A stored event row as Event.create / Event.update wrote it, and with one
\* column damaged.
StoredEventRows(id) ==
    LET plain == eventRow(id, CHOOSE data \in NewEventInputs : TRUE, StoredKey, <<1, 2, 1>>)
        recurring == eventRow(id, CHOOSE data \in EditedEventInputs : TRUE, StoredKey, <<1, 2, 1>>)
    IN  {plain, recurring,
         [plain EXCEPT !.title_encrypted = Tampered(@)],
         [recurring EXCEPT !.rrule_encrypted = Tampered(@)]}

\* The tables of at most MaxRows rows with different ids.
TablesOf(rows) ==
    {table \in SUBSET rows : \A r1, r2 \in table : r1.id = r2.id => r1 = r2}

StoredNoteTables == TablesOf(UNION {StoredNoteRows(id) : id \in 1..MaxRows})

StoredEventTables == TablesOf(UNION {StoredEventRows(id) : id \in 1..MaxRows})

\* A read goes through one table: the other one is empty.
InitRead ==
    /\ \E notes \in StoredNoteTables, events \in StoredEventTables :
         /\ notes = {} \/ events = {}
         /\ StorageService = [db |-> [notes |-> notes, events |-> events, settings |-> {}],
                              isInitialized |-> TRUE,
                              isSaving |-> FALSE, saveQueue |-> FALSE]
         /\ durable = Snapshot(StorageService.db, {})
    /\ inflight = {}
    /\ pc = [o \in Owners |-> "idle"]
    /\ writes = 0
    /\ ioFailed = {}
    /\ InitAppVars

\* The date ranges the calendar asks for: the events start at 10 or at 20.
DateRanges == {<<0, 15>>, <<0, 30>>}

NextRead ==
    \/ \E key \in ReadKeys : ReadNotes(key)
    \/ \E id \in 1..MaxRows, key \in ReadKeys : ReadNote(id, key)
    \/ \E range \in DateRanges, key \in ReadKeys : ReadEvents(range[1], range[2], key)

SpecRead == InitRead /\ [][NextRead]_vars

\* CryptoService.decrypt over every kind of input.
\* The keys: every derived key, and null (no session key is held).
DecryptKeys == {deriveKeyFromPIN(pin, salt) : pin \in PINs, salt \in Salts} \cup {Null}

Plaintexts == {Text("verified"), Text("A"), TagsToJSON(<<"t">>)}

\* What encrypt returns.
WellFormedBlobs ==
    {encrypt(data, key, iv) : data \in Plaintexts, key \in DecryptKeys \ {Null}, iv \in IVs}

\* Well-formed, tampered and malformed Base64, null and a non-string.
DecryptBlobs ==
    WellFormedBlobs \cup {Tampered(blob) : blob \in WellFormedBlobs}
        \cup {Text("garbage"), Null, [kind |-> "number"]}

\* One call of CryptoService.decrypt.
Decrypt(blob, key) ==
    /\ decryptCall' = [blob |-> blob, key |-> key, result |-> decrypt(blob, key)]
    /\ UNCHANGED <<storeVars, authVars, nextId, clock, readCall, files, calendar, importCall, lastImport>>

NextDecrypt == \E blob \in DecryptBlobs, key \in DecryptKeys : Decrypt(blob, key)

SpecDecrypt == InitApp /\ [][NextDecrypt]_vars

\* importData on a device in use, with every kind of file.
\* The credentials of this device, as setupNewPIN stored them.
DeviceItems ==
    setupItems("1234", 1, encrypt(Text("verified"), StoredKey, 1))

\* The tables before the import: intact rows.
ImportNoteTables ==
    SUBSET {noteRow(id, CHOOSE data \in NoteInputs : TRUE, StoredKey, 0, <<1, 2, 1>>) :
               id \in 1..MaxRows}

ImportEventTables ==
    SUBSET {eventRow(id, CHOOSE data \in NewEventInputs : TRUE, StoredKey, <<1, 2, 1>>) :
               id \in 1..MaxRows}

\* The content of a backup: rows written at another time, and the
\* credentials the exporting device held.
BackupContent ==
    backupJSON({noteRow(1, CHOOSE data \in NoteInputs : TRUE, StoredKey, 0, <<2, 1, 2>>)},
               {eventRow(1, CHOOSE data \in EditedEventInputs : TRUE, StoredKey, <<2, 1, 2>>)},
               setupItems("1234", 1, encrypt(Text("verified"), StoredKey, 2)),
               0)

\* What a device set up with the same PIN and another salt exported.
OtherDeviceKey == deriveKeyFromPIN("1234", 2)

OtherDeviceBackup ==
    backupJSON({noteRow(1, CHOOSE data \in NoteInputs : TRUE, OtherDeviceKey, 0, <<2, 1, 2>>)},
               {},
               setupItems("1234", 2, encrypt(Text("verified"), OtherDeviceKey, 2)),
               0)

\* The files the user may pick: a backup, the backup of another PIN, the
\* backup of another device, a damaged backup, a file that is no Base64, an
\* encrypted text that is no JSON, and an encrypted JSON object that is no
\* backup.
ImportFiles ==
    {encrypt(BackupContent, StoredKey, 1),
     encrypt(BackupContent, deriveKeyFromPIN("0000", 1), 1),
     encrypt(OtherDeviceBackup, OtherDeviceKey, 1),
     Tampered(encrypt(BackupContent, StoredKey, 1)),
     Text("garbage"),
     encrypt(Text("garbage"), StoredKey, 1),
     encrypt([kind |-> "object"], StoredKey, 1)}

InitImport ==
    /\ \E notes \in ImportNoteTables, events \in ImportEventTables :
         /\ StorageService = [db |-> [notes |-> notes, events |-> events, settings |-> {}],
                              isInitialized |-> TRUE,
                              isSaving |-> FALSE, saveQueue |-> FALSE]
         /\ durable = Snapshot(StorageService.db, {})
    /\ inflight = {}
    /\ pc = [o \in Owners |-> "idle"]
    /\ writes = 0
    /\ ioFailed = {}
    /\ localStorage = DeviceItems
    /\ auth = authInit(DeviceItems)
    /\ ctrlKey = [c \in Controllers |-> Null]
    /\ publishes = 0
    /\ initialLoads = [c \in Controllers |-> 0]
    /\ lastDispatch = "none"
    /\ setupCalls = {}
    /\ unloading = FALSE
    /\ setupPin = ""
    /\ nextId = 1
    /\ clock = 0
    /\ readCall = Null
    /\ decryptCall = Null
    /\ files = ImportFiles
    /\ calendar = CalendarInit
    /\ importCall = Null
    /\ lastImport = Null

NextImport == ImportStep \/ CompleteStep \/ FailStep

SpecImport == InitImport /\ [][NextImport]_vars

\* Round trips: encrypt then decrypt, and Note.create then Note.findById.
Segments == {"a", "b", BOM, LoneSurrogate}

\* The strings of at most MaxSegments segments.
Strings ==
    {Chars(seq) : seq \in UNION {[1..n -> Segments] : n \in 0..MaxSegments}}

RoundTripKeys == {deriveKeyFromPIN(pin, salt) : pin \in PINs, salt \in Salts}

\* decrypt(encrypt(s, k), k).
EncryptDecrypt(s, key, iv) ==
    /\ decryptCall' = [plain |-> s, blob |-> encrypt(s, key, iv), key |-> key,
                       result |-> decrypt(encrypt(s, key, iv), key)]
    /\ UNCHANGED <<storeVars, authVars, nextId, clock, readCall, files, calendar, importCall,
                   lastImport>>

\* What an editor may hand to Note.create.
RoundTripNoteInputs ==
    [title : {"A", "", BOM, LoneSurrogate}, content : {"B", ""},
     tags : {<<>>, <<"t">>}, is_favorite : BOOLEAN]

\* Note.create(data, key) on an empty table, then Note.findById(id, key)
\* with the id create returned.
CreateThenFind(data, key) ==
    /\ readCall' = [op |-> "Note.create, Note.findById", key |-> key, input |-> data,
                    result |-> NoteFindById({noteRow(randomUUID, data, key, DateNow,
                                                     <<1, 2, 1>>)},
                                            randomUUID, key)]
    /\ UNCHANGED <<storeVars, authVars, nextId, clock, decryptCall, files, calendar, importCall,
                   lastImport>>

NextRoundTrip ==
    \E s \in Strings, key \in RoundTripKeys, iv \in IVs : EncryptDecrypt(s, key, iv)

SpecRoundTrip == InitStore /\ [][NextRoundTrip]_vars

NextCreateFind ==
    \E data \in RoundTripNoteInputs, key \in RoundTripKeys : CreateThenFind(data, key)

SpecCreateFind == InitStore /\ [][NextCreateFind]_vars

\* Event.findByDateRange over stored events of every start time.
StartTimes == {10, 20, 30}

RangeBounds == {5, 10, 15, 20, 25, 30}

\* The stored row of an event that starts at t.
StoredEventAt(id, t) ==
    eventRow(id, [(CHOOSE data \in NewEventInputs : TRUE) EXCEPT !.startTime = t],
             StoredKey, <<1, 2, 1>>)

\* The tables of at most MaxEvents events.
RangeEventTables ==
    TablesOf({StoredEventAt(id, t) : id \in 1..MaxEvents, t \in StartTimes})

InitRange ==
    /\ \E events \in RangeEventTables :
         /\ StorageService = [db |-> [notes |-> {}, events |-> events, settings |-> {}],
                              isInitialized |-> TRUE,
                              isSaving |-> FALSE, saveQueue |-> FALSE]
         /\ durable = Snapshot(StorageService.db, {})
    /\ inflight = {}
    /\ pc = [o \in Owners |-> "idle"]
    /\ writes = 0
    /\ ioFailed = {}
    /\ InitAppVars

NextRange == \E a \in RangeBounds, b \in RangeBounds : ReadEvents(a, b, StoredKey)

SpecRange == InitRange /\ [][NextRange]_vars

\* The notes controller of an unlocked application, the system clock being
\* set by the system (Date.now() is the wall clock: it may go back).
\* A note of an earlier session is stored.
EarlierNote == noteRow(0, CHOOSE data \in NoteInputs : TRUE, StoredKey, 0, <<1, 2, 1>>)

InitNotes ==
    /\ StorageService = [db |-> [notes |-> {EarlierNote}, events |-> {}, settings |-> {}],
                         isInitialized |-> TRUE,
                         isSaving |-> FALSE, saveQueue |-> FALSE]
    /\ durable = Snapshot(StorageService.db, {})
    /\ inflight = {}
    /\ pc = [o \in Owners |-> "idle"]
    /\ writes = 0
    /\ ioFailed = {}
    /\ localStorage = DeviceItems
    /\ auth = [authInit(DeviceItems) EXCEPT !.masterKey = StoredKey, !.isLocked = FALSE]
    /\ ctrlKey = [c \in Controllers |-> StoredKey]
    /\ publishes = 1
    /\ initialLoads = [c \in Controllers |-> IF c \in LoadingControllers THEN 1 ELSE 0]
    /\ lastDispatch = "app-unlocked"
    /\ setupCalls = {}
    /\ unloading = FALSE
    /\ setupPin = ""
    /\ nextId = 1
    /\ clock = 0
    /\ readCall = Null
    /\ decryptCall = Null
    /\ files = {}
    /\ calendar = CalendarInit
    /\ importCall = Null
    /\ lastImport = Null

\* The system clock is set to t.
ClockSet(t) ==
    /\ t # clock
    /\ clock' = t
    /\ UNCHANGED <<storeVars, authVars, nextId, readCall, decryptCall, files, calendar, importCall,
                   lastImport>>

NoteIds == 0..MaxIds

\* The user saves or deletes the next note when the last one is stored.
LastNoteStored == inflight = {} /\ \A o \in Owners : pc[o] = "idle"

NextNotes ==
    \/ \E t \in 0..MaxClock : LastNoteStored /\ ClockSet(t)
    \/ \E data \in NoteInputs, ivs \in IVTriples :
          LastNoteStored /\ SaveNewNote(data, ivs)
    \/ \E id \in NoteIds, data \in NoteInputs, ivs \in IVTriples :
          LastNoteStored /\ SaveEditedNote(id, data, ivs)
    \/ \E id \in NoteIds : LastNoteStored /\ DeleteNote(id)
    \/ \E name \in {"saveNote", "deleteNote"} : HandlerSettle(name)
    \/ CompleteStep

SpecNotes == InitNotes /\ [][NextNotes]_vars

\* Setup, a note, reloads and unlock attempts on a device that was never
\* used, every durable-write succeeding: the only note is the one Note.create
\* stores, with the id randomUUID returned.
NoteCreateStep == \E data \in NoteInputs, ivs \in IVTriples : SaveNewNote(data, ivs)

NoteSettleStep == HandlerSettle("saveNote")

\* The page is reloaded when saveNote has returned and the editor is closed.
ReloadAfterSave == pc[Handler("saveNote")] = "idle" /\ Reload

NextReload ==
    \/ StorageInit \/ StorageInitSettle
    \/ SetupStep \/ SetupFinishStep \/ AttemptStep \/ ReloadAfterSave
    \/ NoteCreateStep \/ NoteSettleStep
    \/ CompleteStep

SpecReload == InitApp /\ [][NextReload]_vars

\* The events of an unlocked application whose store holds an event of an
\* earlier session: saved, edited and deleted.
EarlierEvent == eventRow(0, CHOOSE data \in NewEventInputs : TRUE, StoredKey, <<1, 2, 1>>)

InitEvents ==
    /\ StorageService = [db |-> [notes |-> {}, events |-> {EarlierEvent}, settings |-> {}],
                         isInitialized |-> TRUE,
                         isSaving |-> FALSE, saveQueue |-> FALSE]
    /\ durable = Snapshot(StorageService.db, {})
    /\ inflight = {}
    /\ pc = [o \in Owners |-> "idle"]
    /\ writes = 0
    /\ ioFailed = {}
    /\ localStorage = DeviceItems
    /\ auth = [authInit(DeviceItems) EXCEPT !.masterKey = StoredKey, !.isLocked = FALSE]
    /\ ctrlKey = [c \in Controllers |-> StoredKey]
    /\ publishes = 1
    /\ initialLoads = [c \in Controllers |-> IF c \in LoadingControllers THEN 1 ELSE 0]
    /\ lastDispatch = "app-unlocked"
    /\ setupCalls = {}
    /\ unloading = FALSE
    /\ setupPin = ""
    /\ nextId = 1
    /\ clock = 0
    /\ readCall = Null
    /\ decryptCall = Null
    /\ files = {}
    /\ calendar = CalendarInit
    /\ importCall = Null
    /\ lastImport = Null

EventIds == 0..MaxIds

NextEvents ==
    \/ \E data \in EventInputs, ivs \in IVTriples : SaveNewEvent(data, ivs)
    \/ \E id \in EventIds, data \in EventInputs, ivs \in IVTriples :
          SaveEditedEvent(id, data, ivs)
    \/ \E id \in EventIds : DeleteEvent(id)
    \/ SaveEventFinally
    \/ DeleteEventSettle
    \/ CompleteStep \/ FailStep

SpecEvents == InitEvents /\ [][NextEvents]_vars

\* Two calls of StorageService.init() beside MaxCalls callers of
\* Settings.set, on first run and on a later run; every durable-write
\* succeeds.
InitCalls == {Handler("init"), InitAgain}

InitBeginStep == \E o \in InitCalls : InitBegin(o)

InitResumeStep == \E o \in InitCalls : InitResume(o)

InitSettleStep == \E o \in InitCalls : InitSettle(o)

NextOverlap ==
    \/ InitBeginStep \/ InitResumeStep \/ InitSettleStep
    \/ CallStep \/ SettleStep
    \/ CompleteStep

SpecOverlap == InitInit /\ [][NextOverlap]_vars

\* The controllers' mutating actions on a device in use that starts locked:
\* the stored notes and events are edited and deleted, files are imported,
\* and the application may be unlocked.
LockedNoteStep ==
    \/ \E id \in 1..MaxRows, data \in NoteInputs, ivs \in IVTriples :
          NoImportRunning /\ SaveEditedNote(id, data, ivs)
    \/ \E id \in 1..MaxRows : NoImportRunning /\ DeleteNote(id)

LockedEventStep ==
    \E id \in 1..MaxRows, data \in EditedEventInputs, ivs \in IVTriples :
        NoImportRunning /\ SaveEditedEvent(id, data, ivs)

LockedImportStep ==
    \/ \E file \in files, pin \in PINs : SettingsViewFree /\ ImportReject(file, pin)
    \/ \E file \in files, pin \in PINs : SettingsViewFree /\ ImportStart(file, pin)
    \/ ImportDeleteEvents
    \/ ImportSchemaMismatch
    \/ ImportInsertNote
    \/ ImportInsertEvent
    \/ ImportFinish
    \/ ImportCatch

NextLocked ==
    \/ AppAttemptStep
    \/ LockedNoteStep \/ LockedEventStep \/ HandlerStep
    \/ LockedImportStep
    \/ CompleteStep \/ FailStep

SpecLocked == InitImport /\ [][NextLocked]_vars

\* The calendar of an unlocked application whose store holds events in
\* several months: the 'app-unlocked' listener has called generateCalendar,
\* the user navigates and 'events-updated' arrives while loads are suspended.
InitCalendar ==
    /\ \E events \in RangeEventTables :
         /\ StorageService = [db |-> [notes |-> {}, events |-> events, settings |-> {}],
                              isInitialized |-> TRUE,
                              isSaving |-> FALSE, saveQueue |-> FALSE]
         /\ durable = Snapshot(StorageService.db, {})
         /\ calendar \in loadEventsForMonth(CalendarInit, events, StoredKey)
    /\ inflight = {}
    /\ pc = [o \in Owners |-> "idle"]
    /\ writes = 0
    /\ ioFailed = {}
    /\ localStorage = DeviceItems
    /\ auth = [authInit(DeviceItems) EXCEPT !.masterKey = StoredKey, !.isLocked = FALSE]
    /\ ctrlKey = [c \in Controllers |-> StoredKey]
    /\ publishes = 1
    /\ initialLoads = [c \in Controllers |-> IF c \in LoadingControllers THEN 1 ELSE 0]
    /\ lastDispatch = "app-unlocked"
    /\ setupCalls = {}
    /\ unloading = FALSE
    /\ setupPin = ""
    /\ nextId = 1
    /\ clock = 0
    /\ readCall = Null
    /\ decryptCall = Null
    /\ files = {}
    /\ importCall = Null
    /\ lastImport = Null

NextCalendar ==
    \/ nextMonth
    \/ previousMonth
    \/ goToToday
    \/ onEventsUpdated
    \/ \E load \in calendar.loads : LoadEventsResume(load)

SpecCalendar == InitCalendar /\ [][NextCalendar]_vars

\* The note editor of an unlocked application whose store holds notes, some
\* of them favorites: the list is loaded, notes are opened and saved as
\* they are.
FavoriteNoteInputs == {[data EXCEPT !.is_favorite = f] : data \in NoteInputs, f \in BOOLEAN}

EditNoteTables ==
    TablesOf({noteRow(id, data, StoredKey, 0, <<1, 2, 1>>) :
                 id \in 1..MaxRows, data \in FavoriteNoteInputs})

InitEdit ==
    /\ \E notes \in EditNoteTables :
         /\ StorageService = [db |-> [notes |-> notes, events |-> {}, settings |-> {}],
                              isInitialized |-> TRUE,
                              isSaving |-> FALSE, saveQueue |-> FALSE]
         /\ durable = Snapshot(StorageService.db, {})
         /\ readCall = LoadedNotes(StoredKey)
    /\ inflight = {}
    /\ pc = [o \in Owners |-> "idle"]
    /\ writes = 0
    /\ ioFailed = {}
    /\ localStorage = DeviceItems
    /\ auth = [authInit(DeviceItems) EXCEPT !.masterKey = StoredKey, !.isLocked = FALSE]
    /\ ctrlKey = [c \in Controllers |-> StoredKey]
    /\ publishes = 1
    /\ initialLoads = [c \in Controllers |-> IF c \in LoadingControllers THEN 1 ELSE 0]
    /\ lastDispatch = "app-unlocked"
    /\ setupCalls = {}
    /\ unloading = FALSE
    /\ setupPin = ""
    /\ nextId = 1
    /\ clock = 0
    /\ decryptCall = Null
    /\ files = {}
    /\ calendar = CalendarInit
    /\ importCall = Null
    /\ lastImport = Null

NextEdit ==
    \/ \E t \in 0..MaxClock : LastNoteStored /\ ClockSet(t)
    \/ \E id \in 1..MaxRows, ivs \in IVTriples : EditAndSaveNote(id, ivs)
    \/ SaveNoteFinally
    \/ CompleteStep \/ FailStep

SpecEdit == InitEdit /\ [][NextEdit]_vars

(***************************************************************************)
(* Properties of the write scheduler.                                      *)
(***************************************************************************)
Quiescent ==
    /\ inflight = {}
    /\ \A o \in Owners : pc[o] \in {"idle", "returned"}

\* C1: in every reachable state at most one durable-write (saveDbToIndexedDB)
\* is in flight; a second write never starts before the earlier one finished.
C1_AtMostOneWriteInFlight == Cardinality(inflight) <= 1

\* C1 witness: a call was made while a write is in flight; it set the pending
\* flag and the write in flight is still the only one.
C1_Witness ==
    /\ Cardinality(inflight) = 1
    /\ StorageService.saveQueue
    /\ Cardinality(Applied) >= 2

\* C2: when all durable-writes complete, every mutation applied by execute is
\* eventually held by the durable snapshot: a write whose snapshot was taken
\* after the mutation completes, no request is dropped.
C2_EveryMutationEventuallyDurable ==
    \A i \in Calls : (i \in Applied) ~> (i \in durable.has)

\* C2 witness: all calls were made, fewer writes than calls were performed
\* (requests were coalesced) and the durable snapshot reflects all of them.
C2_Witness ==
    /\ durable.has = Calls
    /\ writes < MaxCalls
    /\ Quiescent

\* C3: an execute call returns to its caller only after a durable-write
\* whose snapshot includes its mutation has completed, also when the call was
\* issued while another durable-write was in flight.
C3_ReturnsOnlyAfterDurable ==
    \A i \in Calls : pc[CallOwner(i)] = "returned" => i \in durable.has

\* C4: with all writes succeeding, N >= 1 execute calls cause at least 1 and
\* at most N durable-writes, and once all calls and writes have finished the
\* durable snapshot equals the in-memory database.
C4_WriteCoalescing ==
    /\ writes <= Cardinality(Applied)
    /\ (Applied # {} /\ Quiescent) =>
          /\ writes >= 1
          /\ durable.data = StorageService.db
          /\ durable.has = Applied

\* C4 witness: every call was made and has finished, with fewer writes than
\* calls, and the settings table is not empty.
C4_Witness ==
    /\ Quiescent
    /\ Applied = Calls
    /\ writes >= 1
    /\ writes < MaxCalls
    /\ StorageService.db.settings # {}

\* C5: when the durable-write triggered by an execute call fails, that execute
\* call does not fail; it completes normally for its caller.
C5_ExecuteSurvivesWriteFailure ==
    \A o \in ioFailed : pc[o] \notin {"throwing", "rejected"}

\* C6: after a durable-write has failed, the next execute call starts a new
\* durable-write.
C6_NextExecuteRetriesWrite ==
    [][(ioFailed # {} /\ inflight = {} /\ Applied' # Applied) => inflight' # {}]_vars

(***************************************************************************)
(* Properties of the stored data and of authentication.                    *)
(***************************************************************************)
\* The database files that are or may become the stored one.
DurableSnapshots ==
    (IF durable = Null THEN {} ELSE {durable}) \cup {w.snap : w \in inflight}

\* v is a ciphertext made by encrypt of one field's plaintext.
IsCipherOf(v, kind) == v.kind = "cipher" /\ v.data.kind = kind

SealedNote(r) ==
    /\ IsCipherOf(r.title_encrypted, "text")
    /\ IsCipherOf(r.content_encrypted, "text")
    /\ IsCipherOf(r.tags_encrypted, "tags")

SealedEvent(r) ==
    /\ IsCipherOf(r.title_encrypted, "text")
    /\ IsCipherOf(r.description_encrypted, "text")
    /\ (r.rrule_encrypted = Null \/ IsCipherOf(r.rrule_encrypted, "text"))

\* C7: in every reachable state every durable snapshot of the database holds
\* the sensitive fields (note title, content, tags; event title, description,
\* rrule) only as ciphertext made by CryptoService.encrypt, one ciphertext
\* per field; no operation of Note, Event, import or export stores a
\* plaintext sensitive field.
C7_SensitiveFieldsStoredEncrypted ==
    \A snap \in DurableSnapshots :
        /\ \A r \in snap.data.notes : SealedNote(r)
        /\ \A r \in snap.data.events : SealedEvent(r)

\* C7 witness: the stored database holds a row and a backup was exported.
C7_Witness ==
    /\ durable # Null
    /\ durable.data.notes \cup durable.data.events # {}
    /\ files # {}

\* v is a PIN or a key derived from a PIN.
IsSecret(v) ==
    \E pin \in PINs :
        \/ v = Text(pin)
        \/ \E salt \in Salts \cup {EmptySalt} : v = deriveKeyFromPIN(pin, salt)

NoSecretInRows(notes, events) ==
    /\ \A r \in notes :
          /\ ~IsSecret(r.title_encrypted)
          /\ ~IsSecret(r.content_encrypted)
          /\ ~IsSecret(r.tags_encrypted)
    /\ \A r \in events :
          /\ ~IsSecret(r.title_encrypted)
          /\ ~IsSecret(r.description_encrypted)
          /\ ~IsSecret(r.rrule_encrypted)

\* The credential storage holds nothing, or a salt and a verification token.
OnlySaltAndToken(salt, token) ==
    /\ salt = Null \/ \E x \in Salts : salt = SaltToJSON(x)
    /\ token = Null \/ IsCipherOf(token, "text")
    /\ ~IsSecret(salt)
    /\ ~IsSecret(token)

NoSecretPersisted ==
    /\ OnlySaltAndToken(localStorage.user_salt, localStorage.verification_data)
    /\ \A snap \in DurableSnapshots : NoSecretInRows(snap.data.notes, snap.data.events)
    /\ \A f \in files :
          /\ ~IsSecret(f)
          /\ f.kind = "cipher"
          /\ OnlySaltAndToken(f.data.salt, f.data.verificationData)
          /\ NoSecretInRows(f.data.notes, f.data.events)

\* A step in which the page is loaded anew.
PageReloads == Reload

SessionKeyGone ==
    /\ auth.masterKey = Null
    /\ \A c \in Controllers : ctrlKey[c] = Null

\* C8: in every reachable state neither the PIN nor the derived session key
\* is in a persisted location (localStorage, the durable database snapshot,
\* a backup file); only the salt and the verification token are persisted,
\* and after a reload no object holds the session key.
C8_SecretsNeverPersisted ==
    /\ []NoSecretPersisted
    /\ [][PageReloads => SessionKeyGone']_vars

\* C8 witness: credentials, a database file and a backup are stored, and the
\* page was reloaded after the backup was made.
C8_Witness ==
    /\ localStorage.user_salt # Null
    /\ durable # Null
    /\ files # {}
    /\ SessionKeyGone

\* C9: once setupNewPIN(pin) has stored the credentials, an unlock attempt
\* with the same pin on the locked application succeeds (isLocked is false,
\* the key is held and published to the controllers), and an attempt with
\* any other pin fails and leaves the application locked with no key.
C9_UnlockCorrectness ==
    [][\A pin \in PINs :
         (setupPin # "" /\ auth.isLocked /\ HandleUnlockAttempt(pin)) =>
            IF pin = setupPin
            THEN /\ ~auth'.isLocked
                 /\ auth'.masterKey # Null
                 /\ \A c \in Controllers : ctrlKey'[c] = auth'.masterKey
                 /\ lastDispatch' = "app-unlocked"
            ELSE /\ auth'.isLocked
                 /\ SessionKeyGone'
                 /\ lastDispatch' = "unlock-failed"]_vars

\* C9 witness: the application was unlocked by an attempt made after setup
\* stored the credentials.
C9_Witness ==
    /\ setupPin # ""
    /\ ~auth.isLocked
    /\ lastDispatch = "app-unlocked"

\* The step in which setupNewPIN stores the credentials.
SetupCompletes ==
    /\ localStorage = EmptyLocalStorage
    /\ localStorage' # EmptyLocalStorage

\* C10 as stated: setup(pin) from Uninitialized ends in Unlocked, holding
\* the key it derived as the session key without a further PIN attempt.
C10_SetupEndsUnlocked ==
    [][SetupCompletes => (~auth'.isLocked /\ auth'.masterKey # Null)]_vars

\* C10 as the code has it: setupNewPIN stores the credentials, keeps no key
\* and calls reload(); the page that loads then is locked, awaiting the PIN,
\* with no session key.
C10_SetupEndsAwaitingPIN ==
    /\ [][SetupCompletes => (auth'.isLocked /\ SessionKeyGone' /\ unloading')]_vars
    /\ [][(unloading /\ Reload) =>
            (auth'.isLocked /\ ~auth'.isNewUser /\ SessionKeyGone')]_vars

\* C10 witness: setup has stored the credentials and no attempt was made
\* since: the application is locked without a key.
C10_Witness ==
    /\ setupPin # ""
    /\ localStorage # EmptyLocalStorage
    /\ ~unloading
    /\ ~auth.isNewUser
    /\ lastDispatch = "none"
    /\ auth.isLocked
    /\ auth.masterKey = Null

\* C11: once a salt and a verification token are stored, no setupNewPIN call
\* replaces them, also not a second call that overlaps the first one on the
\* same page: the stored credentials stay as they are.
C11_SetupNeverReplacesCredentials ==
    [][(localStorage # EmptyLocalStorage /\ \E call \in setupCalls, iv \in IVs : SetupFinish(call, iv))
          => localStorage' = localStorage]_vars

\* The stored salt is what setupNewPIN stored.
SaltIntact == localStorage.user_salt.kind = "json"

\* C12: every unlock attempt that fails, for a wrong PIN or for damaged
\* verification data, ends with the same 'unlock-failed' event, does not end
\* with an exception, and leaves the application locked, awaiting the PIN,
\* with no session key.
C12_FailedUnlockIsGeneric ==
    [][\A pin \in PINs :
         (/\ auth.isLocked
          /\ SaltIntact
          /\ HandleUnlockAttempt(pin)
          /\ lastDispatch' # "app-unlocked")
         => (/\ lastDispatch' = "unlock-failed"
             /\ auth' = auth
             /\ auth'.isLocked
             /\ SessionKeyGone')]_vars

\* C12 witness: the verification data are damaged and an attempt has failed
\* with 'unlock-failed'; the application is locked without a key.
C12_Witness ==
    /\ SaltIntact
    /\ localStorage.verification_data.kind \in {"text", "tampered"}
    /\ lastDispatch = "unlock-failed"
    /\ auth.isLocked
    /\ SessionKeyGone

\* C13: on one page the session key is set once per unlock and the unlock
\* event is published once: when the application is unlocked, a further
\* unlock attempt neither assigns the key nor dispatches 'app-unlocked'.
C13_UnlockPublishedOnce ==
    [][\A pin \in PINs :
         (~auth.isLocked /\ HandleUnlockAttempt(pin))
         => (publishes' = publishes /\ auth' = auth)]_vars

\* C14: every controller that listens to the unlock event handles it
\* idempotently: a controller that holds a key keeps it when a later unlock
\* event arrives and does not start its initial load again.
C14_UnlockEventIdempotent ==
    [][\A pin \in PINs : \A c \in Controllers :
         (ctrlKey[c] # Null /\ HandleUnlockAttempt(pin))
         => (ctrlKey'[c] = ctrlKey[c] /\ initialLoads'[c] = initialLoads[c])]_vars

\* C14 witness: the unlock event was dispatched twice on one page; every
\* controller holds the key and the loading controllers have loaded once.
C14_Witness ==
    /\ publishes = 2
    /\ \A c \in Controllers : ctrlKey[c] = auth.masterKey /\ ctrlKey[c] # Null
    /\ \A c \in LoadingControllers : initialLoads[c] = 1

\* The stored rows a read went through.
RowsRead(call) ==
    IF call.op = "Note.findById"
    THEN {row \in call.table : row.id = call.id}
    ELSE call.table

\* The sensitive columns of a stored row that hold a value.
SensitiveColumns(call, row) ==
    IF call.op = "Event.findByDateRange"
    THEN {row.title_encrypted, row.description_encrypted}
         \cup (IF row.rrule_encrypted # Null THEN {row.rrule_encrypted} ELSE {})
    ELSE {row.title_encrypted, row.content_encrypted, row.tags_encrypted}

\* Decryption of a sensitive field of the row fails under the reader's key.
DecryptionFails(call, row) ==
    \E blob \in SensitiveColumns(call, row) :
        blob.kind # "cipher" \/ blob.key # call.key

\* C15: when decryption of a sensitive field of a stored row fails, the
\* read of that row fails as a whole (the read rejects); no record with the
\* failed field replaced by null is returned.
C15_FailedFieldFailsTheRead ==
    readCall # Null =>
        \A row \in RowsRead(readCall) :
            DecryptionFails(readCall, row) => readCall.result = Thrown

\* The record a stored note row / event row of the given id reads as when
\* every field decrypts: the plaintext that was saved.
SavedNote(row) ==
    LET data == CHOOSE d \in NoteInputs : TRUE
    IN  [id |-> row.id, title |-> Text(data.title), content |-> Text(data.content),
         tags |-> [kind |-> "array", items |-> data.tags],
         createdAt |-> row.created_at, updatedAt |-> row.updated_at,
         isFavorite |-> data.is_favorite]

SavedEvent(row) ==
    LET data == CHOOSE d \in EventInputs : (d.rrule = Null) = (row.rrule_encrypted = Null)
    IN  [id |-> row.id, title |-> Text(data.title),
         description |-> Text(data.description),
         startTime |-> data.startTime, endTime |-> data.endTime,
         isAllDay |-> data.isAllDay, calendarType |-> data.calendarType,
         rrule |-> data.rrule]

Saved(call, row) ==
    IF call.op = "Event.findByDateRange" THEN SavedEvent(row) ELSE SavedNote(row)

MultiRowRead(call) == call.op \in {"Note.findAll", "Event.findByDateRange"}

\* The records a multi-row read returned (findByDateRange returns a list).
Returned(call) ==
    IF call.op = "Event.findByDateRange"
    THEN {call.result.rows[i] : i \in DOMAIN call.result.rows}
    ELSE call.result.rows

\* A multi-row read that met a row whose decryption fails still returns the
\* rows, and every other row in it with the values that were saved.
OtherRowsStillRead ==
    (readCall # Null /\ MultiRowRead(readCall)
       /\ \E row \in readCall.table : DecryptionFails(readCall, row))
    => /\ readCall.result.kind = "rows"
       /\ \A row \in readCall.table :
            ~DecryptionFails(readCall, row)
            => Saved(readCall, row) \in Returned(readCall)

\* C16: a decryption failure on one stored record is confined to it: a read
\* changes no stored row, and the other records of the same multi-row read
\* are returned with their correct decrypted values.
C16_DecryptionFailureConfined ==
    /\ []OtherRowsStillRead
    /\ [][readCall' # readCall
           => (StorageService' = StorageService /\ durable' = durable)]_vars

\* C16 witness: findAll went through a row that does not decrypt and a row
\* that does, and returned the latter as it was saved.
C16_Witness ==
    /\ readCall # Null
    /\ readCall.op = "Note.findAll"
    /\ \E bad, good \in readCall.table :
         /\ DecryptionFails(readCall, bad)
         /\ ~DecryptionFails(readCall, good)
         /\ readCall.result.kind = "rows"
         /\ SavedNote(good) \in readCall.result.rows

\* C17: CryptoService.decrypt never ends with a thrown error: for every
\* blob and every key it returns the plaintext (of a blob that encrypt made
\* under that key) or the failure indicator null.
C17_DecryptNeverThrows ==
    decryptCall # Null =>
        /\ decryptCall.result # Thrown
        /\ \/ decryptCall.result = Null
           \/ /\ decryptCall.blob \in WellFormedBlobs
              /\ decryptCall.blob = encrypt(decryptCall.result, decryptCall.key,
                                            decryptCall.blob.iv)

\* C17 witness: decrypt was called with a tampered blob and returned null.
C17_Witness ==
    /\ decryptCall # Null
    /\ decryptCall.blob.kind = "tampered"
    /\ decryptCall.key # Null
    /\ decryptCall.result = Null

\* The notes, the events and the Credential Record are as they were when the
\* import began.
NothingReplaced(before) ==
    /\ before.db # Null => /\ StorageService.db.notes = before.db.notes
                           /\ StorageService.db.events = before.db.events
    /\ localStorage = before.localStorage

\* No row was deleted while the file was not yet decrypted and parsed.
DeleteAfterParse ==
    importCall # Null => ImportParses(importCall.data)

\* An import that failed in decryption or in JSON.parse replaced nothing.
RejectedImportChangesNothing ==
    (lastImport # Null /\ lastImport.outcome = "rejected")
    => NothingReplaced(lastImport.before)

\* An import that failed because the parsed object is no backup replaced
\* nothing.
SchemaMismatchChangesNothing ==
    (lastImport # Null /\ lastImport.outcome = "schema")
    => NothingReplaced(lastImport.before)

\* C18: the DELETE of notes and events does not begin until the artifact
\* was decrypted and parsed, and an import that fails for a malformed
\* artifact, a decryption failure or a schema mismatch leaves the notes,
\* the events and the Credential Record unchanged.
C18_FailedImportChangesNothing ==
    /\ DeleteAfterParse
    /\ RejectedImportChangesNothing
    /\ SchemaMismatchChangesNothing

\* An import has completed: the page is about to reload.
ImportCompleted == lastImport # Null /\ lastImport.outcome = "completed"

\* C19: after an import completes, the notes and events tables hold exactly
\* the rows of the artifact, none of the rows from before the import unless
\* the artifact has it, and the stored salt and verification token are the
\* artifact's.
C19_ImportReplacesEverything ==
    ImportCompleted =>
        /\ StorageService.db.notes = lastImport.data.notes
        /\ StorageService.db.events = lastImport.data.events
        /\ \A row \in lastImport.before.db.notes \cup lastImport.before.db.events :
             row \in StorageService.db.notes \cup StorageService.db.events
             => row \in lastImport.data.notes \cup lastImport.data.events
        /\ localStorage.user_salt = lastImport.data.salt
        /\ localStorage.verification_data = lastImport.data.verificationData
        /\ ioFailed = {} => /\ durable.data.notes = lastImport.data.notes
                            /\ durable.data.events = lastImport.data.events

\* C19 witness: an import completed on a device that held other notes and
\* events and another verification token than the artifact.
C19_Witness ==
    /\ ImportCompleted
    /\ lastImport.before.db.notes # {}
    /\ lastImport.before.db.events # {}
    /\ lastImport.before.db.notes \cap lastImport.data.notes = {}
    /\ lastImport.data.notes # {}
    /\ lastImport.before.localStorage # localStorage

\* What the file exportData downloads holds for the holder of the session
\* key: the stored rows as they are, the stored salt and the stored token.
HoldsStore(blob) ==
    LET content == decrypt(blob, auth.masterKey)
    IN  /\ content # Null
        /\ content.kind = "backup"
        /\ content.notes = StorageService.db.notes
        /\ content.events = StorageService.db.events
        /\ \A row \in content.notes : SealedNote(row)
        /\ \A row \in content.events : SealedEvent(row)
        /\ content.salt = localStorage.user_salt
        /\ content.verificationData = localStorage.verification_data

\* C20: export changes nothing in the store or the Credential Record,
\* happens only while a session key is held, and produces one blob encrypted
\* under that key that holds the stored rows of notes and events with their
\* field ciphertexts unchanged, the stored salt and the verification token.
C20_ExportIsReadOnlyAndComplete ==
    [][\A iv \in AppIVs :
         ExportData(iv)
         => /\ StorageService' = StorageService
            /\ durable' = durable
            /\ inflight' = inflight
            /\ localStorage' = localStorage
            /\ auth.masterKey # Null
            /\ ctrlKey["settings"] = auth.masterKey
            /\ Cardinality(files' \ files) = 1
            /\ files \subseteq files'
            /\ \A blob \in files' \ files : HoldsStore(blob)]_vars

\* C20 witness: a backup of a store that holds a note was exported.
C20_Witness ==
    \E blob \in files :
        /\ blob.data.notes # {}
        /\ blob.data.notes = StorageService.db.notes
        /\ blob.key = auth.masterKey

\* init has ended in its catch: opening or creating the database failed, or
\* the first durable-write of the schema did.
InitFailed ==
    /\ pc[Handler("init")] = "done"
    /\ StorageService.db = Null \/ Handler("init") \in ioFailed

\* C21: when initialization fails the engine is not reported as initialized,
\* and every query and execute call made since that init began was refused.
C21_FailedInitRefusesEveryCall ==
    InitFailed =>
        /\ ~StorageService.isInitialized
        /\ \A i \in Calls : pc[CallOwner(i)] \in {"idle", "refused"}

\* C22: on first run the schema is in the in-memory database before any
\* execute of another caller is accepted: whenever the engine accepts calls,
\* the database has the tables, and every accepted call found them.
C22_SchemaBeforeAnyExecute ==
    /\ StorageService.isInitialized => HasSchema(StorageService.db)
    /\ (\E i \in Calls : pc[CallOwner(i)] \notin {"idle", "refused"})
       => HasSchema(StorageService.db)

\* C22 witness: on first run an execute of another caller was accepted
\* while the first durable-write of init was still in flight.
C22_Witness ==
    /\ durable = Null
    /\ pc[Handler("init")] = "saving"
    /\ \E i \in Calls : pc[CallOwner(i)] = "returned"
    /\ StorageService.db.settings # {}

\* C23: Note.create followed at once by Note.findById with the returned id
\* and the same key returns the title, content, tags and favourite flag that
\* were given.
C23_CreateThenFindReturnsInput ==
    readCall # Null =>
        /\ readCall.result # Null
        /\ readCall.result.title = Text(readCall.input.title)
        /\ readCall.result.content = Text(readCall.input.content)
        /\ readCall.result.tags = [kind |-> "array", items |-> readCall.input.tags]
        /\ readCall.result.isFavorite = readCall.input.is_favorite

\* The round trip of a string without unpaired surrogate that does not
\* begin with the byte order mark gives the string back.
OrdinaryStringRoundTrip ==
    (decryptCall # Null
       /\ \A i \in DOMAIN decryptCall.plain.text :
            decryptCall.plain.text[i] # LoneSurrogate
       /\ (decryptCall.plain.text = <<>> \/ Head(decryptCall.plain.text) # BOM))
    => decryptCall.result = decryptCall.plain

\* C28: decrypt(encrypt(s, k), k) is s, for every string s and key k, and is
\* never the failure indicator.
C28_EncryptDecryptRoundTrip ==
    decryptCall # Null =>
        /\ decryptCall.result # Null
        /\ decryptCall.result = decryptCall.plain

\* The ids of the records findByDateRange returned, in their order.
ReturnedIds(call) == [i \in DOMAIN call.result.rows |-> call.result.rows[i].id]

\* C24: findByDateRange(a, b) returns exactly the events whose start_time is
\* in [a, b], bounds included, each once, in ascending order of start_time.
C24_RangeQueryCorrect ==
    (readCall # Null /\ readCall.op = "Event.findByDateRange")
    => /\ readCall.result.kind = "rows"
       /\ {ReturnedIds(readCall)[i] : i \in DOMAIN ReturnedIds(readCall)}
            = {row.id : row \in {r \in readCall.events :
                                    /\ readCall.range[1] <= r.start_time
                                    /\ r.start_time <= readCall.range[2]}}
       /\ Len(readCall.result.rows) =
            Cardinality({r \in readCall.events :
                            /\ readCall.range[1] <= r.start_time
                            /\ r.start_time <= readCall.range[2]})
       /\ \A i \in DOMAIN readCall.result.rows :
            \E r \in readCall.events :
               /\ r.id = readCall.result.rows[i].id
               /\ r.start_time = readCall.result.rows[i].startTime
       /\ \A i, j \in DOMAIN readCall.result.rows :
            i < j => readCall.result.rows[i].startTime <= readCall.result.rows[j].startTime

\* C24 witness: with events starting at 10, 20 and 30 the range (15, 25)
\* returned the event at 20 alone.
C24_Witness ==
    /\ readCall # Null
    /\ readCall.op = "Event.findByDateRange"
    /\ {r.start_time : r \in readCall.events} = {10, 20, 30}
    /\ readCall.range = <<15, 25>>
    /\ Len(readCall.result.rows) = 1
    /\ readCall.result.rows[1].startTime = 20

\* The rows of the notes table before and after a step.
NotesBefore == StorageService.db.notes

NotesAfter == StorageService'.db.notes

\* Note.create adds one row with an id no row has, created_at and
\* updated_at being the time of the call.
CreateIsFresh ==
    \A data \in NoteInputs, ivs \in IVTriples :
        SaveNewNote(data, ivs)
        => /\ NotesBefore \subseteq NotesAfter
           /\ Cardinality(NotesAfter \ NotesBefore) = 1
           /\ \A row \in NotesAfter \ NotesBefore :
                /\ \A old \in NotesBefore : old.id # row.id
                /\ row.created_at = clock
                /\ row.updated_at = clock

\* Note.update sets updated_at of the row to the time of the call, keeps its
\* id and created_at, and changes no other row.
UpdateRefreshes ==
    \A id \in NoteIds, data \in NoteInputs, ivs \in IVTriples :
        SaveEditedNote(id, data, ivs)
        => /\ {row.id : row \in NotesAfter} = {row.id : row \in NotesBefore}
           /\ \A old \in NotesBefore :
                IF old.id = id
                THEN \E row \in NotesAfter :
                        /\ row.id = id
                        /\ row.created_at = old.created_at
                        /\ row.updated_at = clock
                ELSE old \in NotesAfter

\* Note.delete(id) removes the row of that id and nothing else.
DeleteRemoves ==
    \A id \in NoteIds :
        DeleteNote(id) => NotesAfter = {row \in NotesBefore : row.id # id}

\* Every stored note has created_at <= updated_at.
CreatedBeforeUpdated ==
    \A row \in StorageService.db.notes : row.created_at <= row.updated_at

\* C25: a note is created with a fresh id and created_at = updated_at, every
\* update sets updated_at to the update time and keeps id and created_at,
\* every stored note has created_at <= updated_at, and delete removes the
\* row of the id and changes no other row.
C25_NoteLifecycle ==
    /\ [][CreateIsFresh]_vars
    /\ [][UpdateRefreshes]_vars
    /\ [][DeleteRemoves]_vars
    /\ []CreatedBeforeUpdated

\* C25 witness: a note that was updated after the clock advanced is stored
\* beside the note of the earlier session.
C25_Witness ==
    /\ \E row \in StorageService.db.notes :
         row.id = 1 /\ row.created_at < row.updated_at
    /\ EarlierNote \in StorageService.db.notes


\* The ids of the notes Note.create has returned for.
CreatedNoteIds ==
    IF pc[Handler("saveNote")] = "idle" THEN 1..(nextId - 1) ELSE {}

\* What Note.findAll returns to the unlocked notes controller.
FindAllNow == NoteFindAll(StorageService.db.notes, ctrlKey["notes"])

\* Every created note is returned by findAll with its original title.
CreatedNotesRead ==
    (ctrlKey["notes"] # Null /\ StorageService.isInitialized)
    => /\ FindAllNow # Thrown
       /\ \A id \in CreatedNoteIds :
            \E n \in FindAllNow.rows :
                n.id = id /\ \E data \in NoteInputs : n.title = Text(data.title)

\* An unlock attempt with a PIN other than the one of setup fails.
OtherPINFails ==
    \A pin \in PINs :
        (setupPin # "" /\ pin # setupPin /\ auth.isLocked /\ HandleUnlockAttempt(pin))
        => auth'.isLocked /\ ctrlKey'["notes"] = Null

\* C26: a note created in an unlocked session is returned by Note.findAll
\* with its original title whenever the application is unlocked again with
\* the same PIN after a reload, the database being the durable snapshot; an
\* unlock with a different PIN fails.
C26_NoteSurvivesReload ==
    /\ []CreatedNotesRead
    /\ [][OtherPINFails]_vars


\* An event mutation has been carried out and its caller resumes in this
\* step: Event.create or Event.update in saveEvent, or Event.delete.
EventMutationDone ==
    \E name \in {"saveEvent", "Event.delete"} :
        /\ pc[Handler(name)] \in {"resuming", "throwing"}
        /\ pc'[Handler(name)] = "idle"

\* The calendar holds what findByDateRange returns for the displayed month
\* of the events now stored.
CalendarReloaded ==
    /\ readCall # Null
    /\ readCall.op = "Event.findByDateRange"
    /\ readCall.range = DisplayedMonth
    /\ readCall.events = StorageService.db.events

\* C27: after every create, update or delete of an event the events-updated
\* signal is published, and the signal makes the calendar reload the events
\* of its displayed range.
C27_EventsUpdatedSignal ==
    [][EventMutationDone
       => (lastDispatch' = "events-updated" /\ CalendarReloaded')]_vars

\* C27 witness: saveEvent has published the signal and the calendar has
\* reloaded a month that holds an event.
C27_Witness ==
    /\ lastDispatch = "events-updated"
    /\ CalendarReloaded
    /\ readCall.result # Thrown
    /\ Len(readCall.result.rows) > 0


\* The artifact was encrypted under a key other than the one of the PIN and
\* the salt this device has persisted.
ExportedUnderOtherKey(file, pin) ==
    /\ file.kind = "cipher"
    /\ file.key # deriveKeyFromPIN(pin, SaltFromJSON(localStorage.user_salt))

\* No statement of the import runs for such an artifact.
OtherKeyNeverImported ==
    \A file \in files, pin \in PINs :
        (JSONparses(localStorage.user_salt) /\ ExportedUnderOtherKey(file, pin))
        => ~ImportStart(file, pin)

\* The rejection of such an artifact left the store and the credentials as
\* they were.
OtherKeyRejectedUnchanged ==
    (/\ lastImport # Null
     /\ lastImport.outcome = "rejected"
     /\ lastImport.fileKey # Null
     /\ lastImport.fileKey
          # deriveKeyFromPIN(lastImport.pin,
                             SaltFromJSON(lastImport.before.localStorage.user_salt)))
    => NothingReplaced(lastImport.before)

ExecuteDuringWriteOnlyFlags ==
    (CallStep /\ inflight # {})
    => /\ StorageService'.saveQueue
       /\ inflight' = inflight
       /\ writes' = writes

\* When the running write completes with the pending flag set, the flag is
\* cleared and one write starts whose snapshot holds every mutation applied
\* so far; with the flag clear no write starts.
CompletionStartsOneFollowUp ==
    CompleteStep
    => IF StorageService.saveQueue
       THEN /\ ~StorageService'.saveQueue
            /\ writes' = writes + 1
            /\ Cardinality(inflight') = 1
            /\ \A w \in inflight' : w.snap = Snapshot(StorageService.db, Applied)
       ELSE /\ inflight' = {}
            /\ writes' = writes

\* C30: execute calls that complete while a durable-write is in flight only
\* set the pending flag and start no write; when the running write finishes
\* the flag is cleared and exactly one more write is performed, whose
\* snapshot contains all of their mutations, however many calls arrived.
C30_PendingWritesCoalesce ==
    /\ [][ExecuteDuringWriteOnlyFlags]_vars
    /\ [][CompletionStartsOneFollowUp]_vars

\* C30 witness: two calls arrived during the first write; it has completed
\* and the one follow-up write in flight holds all three mutations.
C30_Witness ==
    /\ writes = 2
    /\ Cardinality(Applied) >= 3
    /\ Cardinality(durable.has) = 1
    /\ ~StorageService.saveQueue
    /\ Cardinality(inflight) = 1
    /\ \A w \in inflight : w.snap.has = Applied


\* C31: at every suspension point the pending flag is set only while a save
\* is marked in flight: saveQueue implies isSaving.
C31_PendingOnlyWhileSaving ==
    StorageService.saveQueue => StorageService.isSaving

\* C31 witness: a call made during a write has set the pending flag and
\* returned, the save being marked in flight.
C31_Witness ==
    /\ StorageService.saveQueue
    /\ StorageService.isSaving
    /\ \E i \in Calls : pc[CallOwner(i)] = "returned"


\* C32: in an initialized engine whose durable-writes all succeed, whenever
\* no save is marked in flight the durable snapshot equals the in-memory
\* database and holds every applied mutation.
C32_IdleSchedulerMeansDurable ==
    (StorageService.isInitialized /\ ~StorageService.isSaving)
    => /\ durable.data = StorageService.db
       /\ durable.has = Applied

\* C32 witness: mutations were applied, the last write has completed and no
\* save is marked in flight while a caller has yet to resume.
C32_Witness ==
    /\ StorageService.isInitialized
    /\ ~StorageService.isSaving
    /\ Cardinality(Applied) >= 2
    /\ StorageService.db.settings # {}
    /\ durable.data = StorageService.db
    /\ \E i \in Calls : pc[CallOwner(i)] = "resuming"


\* A database instance is created only while there is none.
InstanceCreatedOnce ==
    InitResumeStep => StorageService.db = Null

\* The instance an init assigns holds every setting the one it replaces
\* held.
NoMutationDiscarded ==
    (InitResumeStep /\ StorageService.db # Null)
    => StorageService.db.settings \subseteq StorageService'.db.settings

\* C33: when init is called again while an earlier init is suspended, the
\* database instance is created only once and no mutation applied to the
\* in-memory database is discarded by a later replacement of the instance.
C33_InitIdempotentUnderOverlap ==
    /\ [][InstanceCreatedOnce]_vars
    /\ [][NoMutationDiscarded]_vars

\* C33 witness: both calls of init have ended and a setting is stored in
\* the initialized engine.
C33_Witness ==
    /\ \A o \in InitCalls : pc[o] = "done"
    /\ StorageService.isInitialized
    /\ StorageService.db.settings # {}


\* The salt or the verification token is missing.
NoCompleteCredentialRecord ==
    localStorage.user_salt = Null \/ localStorage.verification_data = Null

\* C34: an unlock attempt made while the salt or the verification token is
\* missing never unlocks, whatever the PIN: isLocked stays true, no session
\* key is held and no unlock event is published.
C34_NoUnlockWithoutCredentials ==
    [][\A pin \in PINs :
         (NoCompleteCredentialRecord /\ auth.isLocked /\ HandleUnlockAttempt(pin))
         => /\ auth'.isLocked
            /\ SessionKeyGone'
            /\ publishes' = publishes
            /\ lastDispatch' # "app-unlocked"]_vars

\* C34 witness: an attempt has failed on a device that holds a verification
\* token and no salt.
C34_Witness ==
    /\ localStorage.user_salt = Null
    /\ localStorage.verification_data # Null
    /\ lastDispatch = "unlock-failed"
    /\ auth.isLocked
    /\ SessionKeyGone


\* No controller holds a session key.
NoControllerHoldsKey ==
    auth.isLocked /\ \A c \in Controllers : ctrlKey[c] = Null

\* C35: while the application is locked no controller action changes the
\* notes table, the events table or the Credential Record: saveNote,
\* deleteNote, saveEvent and importData act on the store only when their
\* controller holds a session key.
C35_LockedStoreUnchanged ==
    [][NoControllerHoldsKey
       => /\ StorageService'.db.notes = StorageService.db.notes
          /\ StorageService'.db.events = StorageService.db.events
          /\ localStorage' = localStorage]_vars

\* C35 witness: the application is locked, no controller holds a key, and
\* deleteNote has executed its DELETE.
C35_Witness ==
    /\ NoControllerHoldsKey
    /\ pc[Handler("deleteNote")] = "resuming"
    /\ \E id \in 1..MaxRows : ~\E r \in StorageService.db.notes : r.id = id


\* What Event.findByDateRange returns for the month that is displayed.
EventsOfDisplayedMonth ==
    LET range == MonthRange(calendar.currentDate)
    IN  {EventFindByDateRange(rows, ctrlKey["calendar"]) :
            rows \in SelectEventsInRange(StorageService.db.events, range[1], range[2])}

\* C37: when overlapping loadEventsForMonth calls have all finished, the
\* calendar's events list is the result for the displayed month: a load
\* started for an earlier month never overwrites the result of a load
\* started later.
C37_LastStartedLoadWins ==
    (calendar.started > 0 /\ calendar.loads = {})
    => /\ calendar.events \in EventsOfDisplayedMonth
       /\ calendar.shown = calendar.started

\* C37 witness: several loads were started, all have finished, and the one
\* that assigned the events list last is not the one started last.
C37_Witness ==
    /\ calendar.started >= 2
    /\ calendar.loads = {}
    /\ calendar.shown < calendar.started


\* The stored row of note id keeps its favorite flag, and its title, content
\* and tags decrypt to what they decrypted to before.
NoteKept(id) ==
    \A before \in StorageService.db.notes :
        before.id = id
        => \E after \in StorageService'.db.notes :
              /\ after.id = id
              /\ after.is_favorite = before.is_favorite
              /\ LET old == NoteDecryptRow(before, ctrlKey["notes"])
                     new == NoteDecryptRow(after, ctrlKey["notes"])
                 IN  /\ new.title = old.title
                     /\ new.content = old.content
                     /\ new.tags = old.tags
                     /\ new.createdAt = old.createdAt

\* C36: editNote followed by saveNote of the unmodified copy of a note that
\* Note.findAll loaded leaves the stored favorite flag and the decrypted
\* title, content and tags as they were; only updated_at changes.
C36_UnmodifiedEditPreserves ==
    [][\A id \in 1..MaxRows, ivs \in IVTriples :
          EditAndSaveNote(id, ivs) => NoteKept(id)]_vars

\* C36 witness: a favorite note was opened and saved as it was; the row in
\* memory has lost the flag that the stored file still holds.
C36_Witness ==
    /\ pc[Handler("saveNote")] = "resuming"
    /\ \E stored \in durable.data.notes, row \in StorageService.db.notes :
         /\ stored.id = row.id
         /\ stored.is_favorite = 1
         /\ row.is_favorite = 0

====
